---- MODULE Spec2Model ----
(***************************************************************************)
(* State-machine model of the penalty-game polling server (src/server.py): *)
(* the session registry, the table registry with its per-occupant queues,  *)
(* the relay of game messages and the substitute ("robot") opponent.       *)
(* Every handler runs under the global lock, so each one is one atomic     *)
(* action.                                                                 *)
(***************************************************************************)
EXTENDS Integers, Sequences, FiniteSets, TLC

VARIABLES
    sessions,       \* uid -> [name, table_tid, inbox]      (dict sessions)
    tables,         \* insertion-ordered dict tid -> table, as a sequence of tables
    pending_names,  \* key -> name                           (dict pending_names)
    ip_names,       \* ip  -> name                           (dict ip_names)
    obs             \* what the clients of SpecRelay have sent and drained,
                    \* and the ids of the tables SpecLife has seen deleted
    ,
    codec           \* SpecCodec: a value, its serialized form, the value read
                    \* back from it
    ,
    run             \* SpecThreads: the holder of the global lock and, per
                    \* request thread, where it stands in its handler

vars == <<sessions, tables, pending_names, ip_names, obs, codec, run>>

(***************************************************************************)
(* Constants of the program                                                *)
(***************************************************************************)
None == "None"                  \* Python's None (never a uid, name or tid)

ROBOT_WAIT_SOLO == 12
ROBOT_WAIT_LOBBY == 80

SYNC_FNS == {"gamePlay", "chooseTeamEnded", "startShoot",
             "homeJerseyIsChosen", "awayJerseyIsChosen"}
ASYNC_FNS == {"opponentShooterShooted", "opponentGoalkeeperJumped"}

ROBOT_UID == "999999"
ROBOT_NAME == "Robot"

DefaultName == "Player"
LastKey == "__last__"
AnonUid == "anon"

(***************************************************************************)
(* Bounds of the model                                                     *)
(***************************************************************************)
MaxQueue == 5                   \* longest host_q / guest_q explored
MaxInbox == 1                   \* longest inbox explored
MaxTables == 1                  \* most tables alive at once
MaxMsgs == 1                    \* most undrained game calls in one queue
MaxRejects == 1                 \* most undrained invite rejections in one queue
MaxWaitPolls == 1               \* most counted polls of a waiting host (Spec)
MaxCalls == 2                   \* most game calls observed (SpecRelay)
MaxLifeTables == 2              \* most tables alive at once (SpecLife)

\* random.randint(100000, 999999)
UidPool == {"100000", "100001", "100002"}
\* str(randint(1, 999999)) + "," + str(randint(1, 999999))
SeedPool == {"1,1"}
NamePool == {"Ann"}
IpPool == {"ip1"}
ParamPool == {"[]"}

(***************************************************************************)
(* Fragments queued for a client (rendered XML in the source)              *)
(***************************************************************************)
Frag(kind, uid, name, tid, seeds, fn, sync, idx, params) ==
    [kind |-> kind, uid |-> uid, name |-> name, tid |-> tid, seeds |-> seeds,
     fn |-> fn, sync |-> sync, idx |-> idx, params |-> params]

player_joined_xml(uid, name, table_uid) ==
    Frag("PLAYERJOINEDTABLE", uid, name, table_uid, None, None, None, 0, None)

OpenTableResult(tid) ==
    Frag("OPENTABLERESULT", None, None, tid, None, None, None, 0, None)

JoinTableResult(tid) ==
    Frag("JOINTABLERESULT", None, None, tid, None, None, None, 0, None)

StartPlayingResult ==
    Frag("STARTPLAYINGRESULT", None, None, None, None, None, None, 0, None)

PlayingStarted(tid, seeds) ==
    Frag("PLAYINGSTARTED", None, None, tid, seeds, None, None, 0, None)

RobotJoinTableResult ==
    Frag("ROBOTJOINTABLERESULT", None, None, None, None, None, None, 0, None)

InviteToTable(table_uid, uid, name) ==
    Frag("INVITETOTABLE", uid, name, table_uid, None, None, None, 0, None)

TableInviteRejected(uid, table_uid) ==
    Frag("TABLEINVITEREJECTED", uid, None, table_uid, None, None, None, 0, None)

JoinRoomResult(new_uid, name) ==
    Frag("root", new_uid, name, None, None, None, None, 0, None)

\* one GAMEMESSAGERECEIVED node for a single playerIndex
push_node(fn, params, sync_string, player_index) ==
    Frag("GAMEMESSAGERECEIVED", None, None, None, None, fn, sync_string,
         player_index, params)

(***************************************************************************)
(* The tables dict: insertion ordered, keyed by tid                        *)
(***************************************************************************)
HasTable(T, tid) == \E i \in 1..Len(T) : T[i].tid = tid

TableIndex(T, tid) == CHOOSE i \in 1..Len(T) : T[i].tid = tid

GetTable(T, tid) == T[TableIndex(T, tid)]

\* tables[tid] = t : a present key keeps its place, a new key goes last
PutTable(T, tid, t) ==
    IF HasTable(T, tid)
    THEN [T EXCEPT ![TableIndex(T, tid)] = t]
    ELSE Append(T, t)

\* del tables[tid]
DelTable(T, tid) == SelectSeq(T, LAMBDA t : t.tid # tid)

new_table(tid, host_uid, host_name) ==
    [tid |-> tid, host |-> host_uid, host_name |-> host_name,
     guest |-> None, guest_name |-> None, state |-> "open",
     host_q |-> <<>>, guest_q |-> <<>>, wait_polls |-> 0,
     robot_mode |-> FALSE]

q_push(t, uid, node) ==
    IF uid = t.host THEN [t EXCEPT !.host_q = Append(@, node)]
    ELSE IF uid = t.guest THEN [t EXCEPT !.guest_q = Append(@, node)]
    ELSE t

\* a mutant of q_push_both: the guest's copy is forgotten
q_push_host_only(t, node) == [t EXCEPT !.host_q = Append(@, node)]

q_push_both(t, node) ==
    LET t1 == [t EXCEPT !.host_q = Append(@, node)]
    IN  IF t.guest # None THEN [t1 EXCEPT !.guest_q = Append(@, node)] ELSE t1

\* the drained fragments and the table left behind
q_pop(t, uid) ==
    IF uid = t.host
    THEN [out |-> t.host_q, table |-> [t EXCEPT !.host_q = <<>>]]
    ELSE [out |-> t.guest_q, table |-> [t EXCEPT !.guest_q = <<>>]]

\* a mutant of other_uid: the caller itself
other_uid_self(t, uid) == uid

other_uid(t, uid) == IF uid = t.host THEN t.guest ELSE t.host

\* uids of the sessions that are at no table
wandering_humans(S, exclude_uid) ==
    {u \in DOMAIN S : S[u].table_tid = None /\ u # exclude_uid}

\* tid of the first open, guest-free, non-robot table, or None
find_open_table(T, exclude_uid) ==
    LET ok(i) == /\ T[i].host # exclude_uid
                 /\ T[i].guest # exclude_uid
                 /\ T[i].state = "open"
                 /\ T[i].guest = None
                 /\ ~T[i].robot_mode
        hits == {i \in 1..Len(T) : ok(i)}
    IN  IF hits = {} THEN None
        ELSE T[CHOOSE i \in hits : \A j \in hits : i <= j].tid

\* a mutant of detach_guest: the guest keeps its table_tid
detach_nobody(S, t) == S

\* the host leaves: the guest's session, if any, loses its table_tid
detach_guest(S, t) ==
    IF t.guest # None /\ t.guest \in DOMAIN S
    THEN [S EXCEPT ![t.guest].table_tid = None]
    ELSE S

\* a mutant of reset_table: the table stays "playing"
reset_keeps_state(t) ==
    [t EXCEPT !.guest = None, !.guest_name = None, !.guest_q = <<>>,
              !.wait_polls = 0, !.robot_mode = FALSE]

\* a mutant of reset_table: wait_polls is not reset
reset_keeps_wait(t) ==
    [t EXCEPT !.guest = None, !.guest_name = None, !.guest_q = <<>>,
              !.state = "open", !.robot_mode = FALSE]

\* the guest leaves: the table is reset for a new opponent
reset_table(t) ==
    [t EXCEPT !.guest = None, !.guest_name = None, !.guest_q = <<>>,
              !.state = "open", !.wait_polls = 0, !.robot_mode = FALSE]

\* leave_table(uid) on the registries st = [sessions, tables]
leave_table(st, uid) ==
    IF uid \notin DOMAIN st.sessions THEN st
    ELSE LET tid == st.sessions[uid].table_tid IN
         IF tid = None \/ ~HasTable(st.tables, tid)
         THEN [st EXCEPT !.sessions[uid].table_tid = None]
         ELSE LET t == GetTable(st.tables, tid) IN
              IF t.host = uid
              THEN [sessions |-> [detach_guest(st.sessions, t)
                                     EXCEPT ![uid].table_tid = None],
                    tables |-> DelTable(st.tables, tid)]
              ELSE [sessions |-> [st.sessions EXCEPT ![uid].table_tid = None],
                    tables |-> PutTable(st.tables, tid, reset_table(t))]

(***************************************************************************)
(* Handlers, as functions of the registries st = [sessions, tables]        *)
(***************************************************************************)
Registries == [sessions |-> sessions, tables |-> tables]

\* the events _connect_two_players queues for the host
host_events(tid, guest_uid, guest_name, seeds) ==
    << player_joined_xml(guest_uid, guest_name, tid),
       StartPlayingResult,
       PlayingStarted(tid, seeds) >>

\* a mutant of guest_events: the guest is told it opened the table
guest_events_open_result(tid, host_uid, host_name, guest_uid, guest_name, seeds) ==
    << OpenTableResult(tid),
       player_joined_xml(host_uid, host_name, tid),
       player_joined_xml(guest_uid, guest_name, tid),
       StartPlayingResult,
       PlayingStarted(tid, seeds) >>

\* a mutant of guest_events: the guest's match-started notice has no seeds
guest_events_unseeded(tid, host_uid, host_name, guest_uid, guest_name, seeds) ==
    << JoinTableResult(tid),
       player_joined_xml(host_uid, host_name, tid),
       player_joined_xml(guest_uid, guest_name, tid),
       StartPlayingResult,
       PlayingStarted(tid, None) >>

\* the events _connect_two_players queues for the guest
guest_events(tid, host_uid, host_name, guest_uid, guest_name, seeds) ==
    << JoinTableResult(tid),
       player_joined_xml(host_uid, host_name, tid),
       player_joined_xml(guest_uid, guest_name, tid),
       StartPlayingResult,
       PlayingStarted(tid, seeds) >>

\* _connect_two_players(tid, guest_uid, guest_sess)
connect_two_players(st, tid, guest_uid, seeds) ==
    LET t0 == GetTable(st.tables, tid)
        guest_name == st.sessions[guest_uid].name
        host_uid == t0.host
        host_name == t0.host_name
        t1 == [t0 EXCEPT !.guest = guest_uid, !.guest_name = guest_name,
                         !.state = "playing"]
        t2 == [t1 EXCEPT !.host_q = @ \o
                  host_events(tid, guest_uid, guest_name, seeds)]
        t3 == [t2 EXCEPT !.guest_q = @ \o
                  guest_events(tid, host_uid, host_name, guest_uid,
                               guest_name, seeds)]
    IN  [sessions |-> [st.sessions EXCEPT ![guest_uid].table_tid = tid],
         tables |-> PutTable(st.tables, tid, t3)]

\* a mutant of robot_join_now: only the substitute flag is tested
robot_join_now_any_state(T, tid, seeds) ==
    IF ~HasTable(T, tid) THEN T
    ELSE LET t == GetTable(T, tid) IN
         IF t.robot_mode THEN T
         ELSE PutTable(T, tid,
                [t EXCEPT !.robot_mode = TRUE, !.state = "playing",
                          !.guest = ROBOT_UID, !.guest_name = ROBOT_NAME,
                          !.host_q = @ \o
                             << RobotJoinTableResult,
                                player_joined_xml(ROBOT_UID, ROBOT_NAME, tid),
                                StartPlayingResult,
                                PlayingStarted(tid, seeds) >>])

\* _robot_join_now(tid), on the tables dict
robot_join_now(T, tid, seeds) ==
    IF ~HasTable(T, tid) THEN T
    ELSE LET t == GetTable(T, tid) IN
         IF t.state # "open" \/ t.robot_mode THEN T
         ELSE PutTable(T, tid,
                [t EXCEPT !.robot_mode = TRUE, !.state = "playing",
                          !.guest = ROBOT_UID, !.guest_name = ROBOT_NAME,
                          !.host_q = @ \o
                             << RobotJoinTableResult,
                                player_joined_xml(ROBOT_UID, ROBOT_NAME, tid),
                                StartPlayingResult,
                                PlayingStarted(tid, seeds) >>])

\* a mutant of solo_table: the table is keyed by the lobby's table id
solo_table_lobby_id(st, uid) ==
    LET name == st.sessions[uid].name
        t == [new_table("101", uid, name) EXCEPT !.host_q =
                 << OpenTableResult("101"),
                    player_joined_xml(uid, name, "101") >>]
    IN  [sessions |-> [st.sessions EXCEPT ![uid].table_tid = "101"],
         tables |-> PutTable(st.tables, "101", t)]

\* the solo table of _open_table and of step 3 of _join_table
solo_table(st, uid) ==
    LET name == st.sessions[uid].name
        t == [new_table(uid, uid, name) EXCEPT !.host_q =
                 << OpenTableResult(uid), player_joined_xml(uid, name, uid) >>]
    IN  [sessions |-> [st.sessions EXCEPT ![uid].table_tid = uid],
         tables |-> PutTable(st.tables, uid, t)]

\* _open_table(uid)
open_table(st, uid) ==
    IF uid \notin DOMAIN st.sessions THEN st
    ELSE solo_table(leave_table(st, uid), uid)

\* _join_table(uid, p) with target_tid = p.get("tableUID")
join_table(st, uid, target_tid, seeds) ==
    IF uid \notin DOMAIN st.sessions THEN st
    ELSE LET s1 == leave_table(st, uid)
             invited ==
                 /\ target_tid # None
                 /\ HasTable(s1.tables, target_tid)
                 /\ LET t == GetTable(s1.tables, target_tid)
                    IN  /\ t.state = "open"
                        /\ t.guest = None
                        /\ t.host # uid
                        /\ ~t.robot_mode
             tid == find_open_table(s1.tables, uid)
         IN  IF invited THEN connect_two_players(s1, target_tid, uid, seeds)
             ELSE IF tid # None THEN connect_two_players(s1, tid, uid, seeds)
             ELSE solo_table(s1, uid)

RobotTargets == {None, "BOT", "ROBOT", "0", "bot", "robot"}

\* a mutant of invite_to_table: the substitute is seated at the table named
\* before the caller's session is looked up
invite_robot_unchecked(st, uid, target_uid, table_param, seeds) ==
    IF target_uid \in RobotTargets /\ table_param # None
    THEN [st EXCEPT !.tables = robot_join_now(@, table_param, seeds)]
    ELSE IF uid \notin DOMAIN st.sessions THEN st
    ELSE LET sess == st.sessions[uid]
             table_uid == IF table_param # None THEN table_param
                          ELSE sess.table_tid
         IN  IF table_uid = None THEN st
             ELSE IF target_uid \in RobotTargets
             THEN [st EXCEPT !.tables = robot_join_now(@, table_uid, seeds)]
             ELSE IF target_uid \notin DOMAIN st.sessions THEN st
             ELSE IF st.sessions[target_uid].table_tid # None THEN st
             ELSE [st EXCEPT !.sessions[target_uid].inbox =
                      Append(@, InviteToTable(table_uid, uid, sess.name))]

\* _invite_to_table(uid, p) with target_uid and p.get("tableUID")
invite_to_table(st, uid, target_uid, table_param, seeds) ==
    IF uid \notin DOMAIN st.sessions THEN st
    ELSE LET sess == st.sessions[uid]
             table_uid == IF table_param # None THEN table_param
                          ELSE sess.table_tid
         IN  IF table_uid = None THEN st
             ELSE IF target_uid \in RobotTargets
             THEN [st EXCEPT !.tables = robot_join_now(@, table_uid, seeds)]
             ELSE IF target_uid \notin DOMAIN st.sessions THEN st
             ELSE IF st.sessions[target_uid].table_tid # None THEN st
             ELSE [st EXCEPT !.sessions[target_uid].inbox =
                      Append(@, InviteToTable(table_uid, uid, sess.name))]

\* _reject_invite(uid, p) with p.get("tableUID") and p.get("hostUID")
reject_invite(st, uid, table_uid, host_uid) ==
    IF table_uid # None /\ HasTable(st.tables, table_uid)
    THEN LET t == GetTable(st.tables, table_uid)
         IN  [st EXCEPT !.tables = PutTable(@, table_uid,
                 [t EXCEPT !.host_q =
                     Append(@, TableInviteRejected(uid, table_uid))])]
    ELSE IF host_uid # None /\ host_uid \in DOMAIN st.sessions
    THEN LET tid == st.sessions[host_uid].table_tid
         IN  IF tid # None /\ HasTable(st.tables, tid)
             THEN LET t == GetTable(st.tables, tid)
                  IN  [st EXCEPT !.tables = PutTable(@, tid,
                          [t EXCEPT !.host_q =
                              Append(@, TableInviteRejected(uid, tid))])]
             ELSE st
    ELSE st

\* a mutant of robot_join_table: the conversion keeps the host queue
robot_join_table_keeps_host_q(st, uid, table_param, seeds) ==
    LET T == st.tables
        tid1 == IF uid \in DOMAIN st.sessions
                THEN IF table_param # None THEN table_param
                     ELSE st.sessions[uid].table_tid
                ELSE None
        tid2 == IF tid1 = None THEN table_param ELSE tid1
        cands == {i \in 1..Len(T) :
                     T[i].state \in {"open", "playing"} /\ ~T[i].robot_mode}
        tid3 == IF (tid2 = None \/ ~HasTable(T, tid2)) /\ cands # {}
                THEN T[CHOOSE i \in cands : \A j \in cands : i <= j].tid
                ELSE tid2
    IN  IF tid3 = None \/ ~HasTable(T, tid3) THEN st
        ELSE LET t == GetTable(T, tid3) IN
             IF t.state = "open" /\ ~t.robot_mode
             THEN [st EXCEPT !.tables = robot_join_now(@, tid3, seeds)]
             ELSE IF t.state = "playing" /\ ~t.robot_mode
             THEN LET guest_uid == t.guest
                      S1 == IF /\ guest_uid # None
                               /\ guest_uid # ROBOT_UID
                               /\ guest_uid \in DOMAIN st.sessions
                            THEN [st.sessions EXCEPT
                                     ![guest_uid].table_tid = None]
                            ELSE st.sessions
                      t1 == [t EXCEPT !.guest = None, !.guest_name = None,
                                      !.guest_q = <<>>, !.state = "open",
                                      !.wait_polls = 0]
                  IN  [sessions |-> S1,
                       tables |-> robot_join_now(PutTable(T, tid3, t1),
                                                 tid3, seeds)]
             ELSE st

\* _robot_join_table(uid, p) with p.get("tableUID")
robot_join_table(st, uid, table_param, seeds) ==
    LET T == st.tables
        tid1 == IF uid \in DOMAIN st.sessions
                THEN IF table_param # None THEN table_param
                     ELSE st.sessions[uid].table_tid
                ELSE None
        tid2 == IF tid1 = None THEN table_param ELSE tid1
        cands == {i \in 1..Len(T) :
                     T[i].state \in {"open", "playing"} /\ ~T[i].robot_mode}
        tid3 == IF (tid2 = None \/ ~HasTable(T, tid2)) /\ cands # {}
                THEN T[CHOOSE i \in cands : \A j \in cands : i <= j].tid
                ELSE tid2
    IN  IF tid3 = None \/ ~HasTable(T, tid3) THEN st
        ELSE LET t == GetTable(T, tid3) IN
             IF t.state = "open" /\ ~t.robot_mode
             THEN [st EXCEPT !.tables = robot_join_now(@, tid3, seeds)]
             ELSE IF t.state = "playing" /\ ~t.robot_mode
             THEN LET guest_uid == t.guest
                      S1 == IF /\ guest_uid # None
                               /\ guest_uid # ROBOT_UID
                               /\ guest_uid \in DOMAIN st.sessions
                            THEN [st.sessions EXCEPT
                                     ![guest_uid].table_tid = None]
                            ELSE st.sessions
                      t1 == [t EXCEPT !.guest = None, !.guest_name = None,
                                      !.guest_q = <<>>, !.state = "open",
                                      !.wait_polls = 0, !.host_q = <<>>]
                  IN  [sessions |-> S1,
                       tables |-> robot_join_now(PutTable(T, tid3, t1),
                                                 tid3, seeds)]
             ELSE st

\* a mutant of wait_limit: the lobby is never looked at
wait_limit_solo(S, uid) == ROBOT_WAIT_SOLO

\* a mutant of wait_limit: the two limits are taken the wrong way round
wait_limit_swapped(S, uid) ==
    IF wandering_humans(S, uid) # {} THEN ROBOT_WAIT_SOLO ELSE ROBOT_WAIT_LOBBY

\* the limit _get_messages holds the host's counted polls against
wait_limit(S, uid) ==
    IF wandering_humans(S, uid) # {} THEN ROBOT_WAIT_LOBBY ELSE ROBOT_WAIT_SOLO

\* a mutant of drain_inbox: the poll goes on to drain the table queue
drain_inbox_then_queue(st, uid) ==
    LET sess == st.sessions[uid]
        tid == sess.table_tid
        S1 == [st.sessions EXCEPT ![uid].inbox = <<>>]
    IN  IF tid = None \/ ~HasTable(st.tables, tid)
        THEN [st |-> [st EXCEPT !.sessions = S1], out |-> sess.inbox]
        ELSE LET popped == q_pop(GetTable(st.tables, tid), uid)
             IN  [st |-> [sessions |-> S1,
                          tables |-> PutTable(st.tables, tid, popped.table)],
                  out |-> sess.inbox \o popped.out]

\* the inbox branch of _get_messages
drain_inbox(st, uid) ==
    [st |-> [st EXCEPT !.sessions[uid].inbox = <<>>],
     out |-> st.sessions[uid].inbox]

\* _get_messages(uid): the registries left behind and the fragments returned
get_messages(st, uid, seeds) ==
    IF uid \notin DOMAIN st.sessions THEN [st |-> st, out |-> <<>>]
    ELSE LET sess == st.sessions[uid] IN
         IF sess.inbox # <<>>
         THEN drain_inbox(st, uid)
         ELSE LET tid == sess.table_tid IN
              IF tid = None \/ ~HasTable(st.tables, tid)
              THEN [st |-> st, out |-> <<>>]
              ELSE LET t == GetTable(st.tables, tid)
                       counted == t.state = "open" /\ ~t.robot_mode
                                  /\ t.host = uid
                       t1 == IF counted
                             THEN [t EXCEPT !.wait_polls = @ + 1] ELSE t
                       T1 == PutTable(st.tables, tid, t1)
                       limit == wait_limit(st.sessions, uid)
                       T2 == IF counted /\ t1.wait_polls >= limit
                             THEN robot_join_now(T1, tid, seeds) ELSE T1
                       popped == q_pop(GetTable(T2, tid), uid)
                   IN  [st |-> [st EXCEPT !.tables =
                                   PutTable(T2, tid, popped.table)],
                        out |-> popped.out]

\* a mutant of sender_index: every call is tagged as the host's
sender_index_zero(t, uid) == 0

\* the playerIndex _relay tags a call with
sender_index(t, uid) == IF uid = t.host THEN 0 ELSE 1

\* _relay(t, uid, fn, params), on the table t
relay(t, uid, fn, params) ==
    LET sender_idx == sender_index(t, uid)
        other == other_uid(t, uid)
    IN  IF fn \in SYNC_FNS
        THEN q_push_both(t, push_node(fn, params, fn, sender_idx))
        ELSE IF fn \in ASYNC_FNS /\ other # None
        THEN q_push(t, other, push_node(fn, params, None, sender_idx))
        ELSE t

\* a mutant of function_name: a missing functionName counts as gamePlay
function_name_default(obj) ==
    IF obj.shape \in {"dict", "wrapped", "list_of_dict", "list_of_wrapped"}
    THEN (IF obj.fn = "" THEN "gamePlay" ELSE obj.fn) ELSE ""

\* The decoded payload of sendGameMessage: obj.shape is what deserialize and
\* the unwrapping found, obj.fn the functionName ("" when there is none)
function_name(obj) ==
    IF obj.shape \in {"dict", "wrapped", "list_of_dict", "list_of_wrapped"}
    THEN obj.fn ELSE ""

\* a mutant of robot_answer: only the caller's own index is queued
robot_answer_own_index(t, fn, params) ==
    [t EXCEPT !.host_q = Append(@, push_node(fn, params, fn, 0))]

\* a mutant of robot_answer: startShoot makes the substitute shoot back
robot_answer_shoots(t, fn, params) ==
    IF fn = "startShoot"
    THEN [t EXCEPT !.host_q = @ \o
             << push_node(fn, params, fn, 0), push_node(fn, params, fn, 1),
                push_node("opponentShooterShooted", params, None, 1) >>]
    ELSE IF fn \in SYNC_FNS
    THEN [t EXCEPT !.host_q = @ \o << push_node(fn, params, fn, 0),
                                      push_node(fn, params, fn, 1) >>]
    ELSE t

\* robot mode: a synchronized call is answered with both indices at once
robot_answer(t, fn, params) ==
    IF fn \in SYNC_FNS
    THEN [t EXCEPT !.host_q = @ \o << push_node(fn, params, fn, 0),
                                      push_node(fn, params, fn, 1) >>]
    ELSE t

\* _game_message(uid, p), from the decoded payload on
game_message(st, uid, obj) ==
    LET fn == function_name(obj)
        params == obj.params
    IN  IF obj.shape = "undecodable" \/ fn = "" THEN st
        ELSE IF uid \notin DOMAIN st.sessions THEN st
        ELSE LET tid == st.sessions[uid].table_tid IN
         IF tid = None \/ ~HasTable(st.tables, tid) THEN st
         ELSE LET t == GetTable(st.tables, tid) IN
              IF t.robot_mode
              THEN [st EXCEPT !.tables =
                       PutTable(@, tid, robot_answer(t, fn, params))]
              ELSE [st EXCEPT !.tables =
                       PutTable(@, tid, relay(t, uid, fn, params))]

\* _leave(uid)
leave(st, uid) ==
    LET s1 == leave_table(st, uid)
    IN  [s1 EXCEPT !.sessions =
            [u \in DOMAIN s1.sessions \ {uid} |-> s1.sessions[u]]]

\* _game_ended(uid, p)
game_ended(st, uid) == leave_table(st, uid)

(***************************************************************************)
(* The name bridge: checkUser, then joinRoom                               *)
(***************************************************************************)
DictPut(d, k, v) == [x \in DOMAIN d \cup {k} |-> IF x = k THEN v ELSE d[x]]

DictPop(d, k) == [x \in DOMAIN d \ {k} |-> d[x]]

\* _check_user(uid, p): the name is p's, or the default
check_user(pn, uid, name_param) ==
    LET name == IF name_param # None THEN name_param ELSE DefaultName
    IN  DictPut(DictPut(pn, uid, name), LastKey, name)

\* a mutant of resolved_name: the wildcard is looked up before the own id
resolved_name_last_first(pn, ipn, uid, name_param, ip) ==
    IF name_param # None THEN name_param
    ELSE IF LastKey \in DOMAIN pn THEN pn[LastKey]
    ELSE IF uid \in DOMAIN pn THEN pn[uid]
    ELSE IF ip \in DOMAIN ipn THEN ipn[ip]
    ELSE DefaultName

\* the display name _join_room resolves
resolved_name(pn, ipn, uid, name_param, ip) ==
    IF name_param # None THEN name_param
    ELSE IF uid \in DOMAIN pn THEN pn[uid]
    ELSE IF LastKey \in DOMAIN pn THEN pn[LastKey]
    ELSE IF ip \in DOMAIN ipn THEN ipn[ip]
    ELSE DefaultName

\* the pending names _join_room leaves behind
popped_names(pn, uid, name_param) ==
    IF name_param # None THEN DictPop(DictPop(pn, uid), LastKey)
    ELSE IF uid \in DOMAIN pn THEN DictPop(pn, uid)
    ELSE DictPop(pn, LastKey)

\* _join_room(uid, p, ip), with new_uid the random id drawn
join_room(S, pn, ipn, uid, name_param, ip, new_uid) ==
    LET name == resolved_name(pn, ipn, uid, name_param, ip)
    IN  [sessions |-> DictPut(S, new_uid,
                        [name |-> name, table_tid |-> None, inbox |-> <<>>]),
         pending_names |-> popped_names(pn, uid, name_param),
         ip_names |-> IF name # DefaultName THEN DictPut(ipn, ip, name)
                      ELSE ipn,
         out |-> << JoinRoomResult(new_uid, name) >>]

(***************************************************************************)
(* The wire codec: serialize, and deserialize over what the XML parser     *)
(* reads.  Text is a sequence of characters; a 32-bit word is its eight    *)
(* hexadecimal digits as numbers 0..15, most significant first.            *)
(***************************************************************************)
ZeroWord == <<0, 0, 0, 0, 0, 0, 0, 0>>

\* a Python value: t is its type, the other fields hold what that type needs
Val(t, b, i, hi, lo, str, items) ==
    [t |-> t, b |-> b, i |-> i, hi |-> hi, lo |-> lo, s |-> str,
     items |-> items]

NullVal == Val("null", FALSE, 0, ZeroWord, ZeroWord, <<>>, <<>>)
BoolVal(b) == Val("bool", b, 0, ZeroWord, ZeroWord, <<>>, <<>>)
IntVal(i) == Val("int", FALSE, i, ZeroWord, ZeroWord, <<>>, <<>>)
FloatVal(hi, lo) == Val("float", FALSE, 0, hi, lo, <<>>, <<>>)
StrVal(str) == Val("str", FALSE, 0, ZeroWord, ZeroWord, str, <<>>)
ListVal(items) == Val("list", FALSE, 0, ZeroWord, ZeroWord, <<>>, items)
\* a dict: its items are entries, in insertion order
DictVal(entries) == Val("dict", FALSE, 0, ZeroWord, ZeroWord, <<>>, entries)
Entry(key, v) == Val("entry", FALSE, 0, ZeroWord, ZeroWord, key, <<v>>)

\* an XML element: tag, the text of its one attribute, its children
El(tag, attr, kids) == [tag |-> tag, attr |-> attr, kids |-> kids]

RECURSIVE Replace(_, _, _)
\* str.replace(c, r) for a one-character c
Replace(str, c, r) ==
    IF str = <<>> THEN <<>>
    ELSE (IF Head(str) = c THEN r ELSE <<Head(str)>>)
             \o Replace(Tail(str), c, r)

Amp == <<"&", "a", "m", "p", ";">>
Quot == <<"&", "q", "u", "o", "t", ";">>
Lt == <<"&", "l", "t", ";">>
Gt == <<"&", "g", "t", ";">>

\* _escape(s)
escape(str) ==
    Replace(Replace(Replace(Replace(str, "&", Amp), "\"", Quot), "<", Lt),
            ">", Gt)

DecDigits == <<"0", "1", "2", "3", "4", "5", "6", "7", "8", "9">>
HexDigits == DecDigits \o <<"a", "b", "c", "d", "e", "f">>

RECURSIVE NatToChars(_)
NatToChars(n) ==
    IF n < 10 THEN <<DecDigits[n + 1]>>
    ELSE Append(NatToChars(n \div 10), DecDigits[(n % 10) + 1])

\* f"{val}" for an int
IntToChars(i) == IF i < 0 THEN <<"-">> \o NatToChars(0 - i) ELSE NatToChars(i)

DigitOf(c, digits) == (CHOOSE k \in 1..Len(digits) : digits[k] = c) - 1

IsDigit(c, digits) == \E k \in 1..Len(digits) : digits[k] = c

RECURSIVE CharsToNat(_)
CharsToNat(str) ==
    IF Len(str) = 1 THEN DigitOf(str[1], DecDigits)
    ELSE 10 * CharsToNat(SubSeq(str, 1, Len(str) - 1))
            + DigitOf(str[Len(str)], DecDigits)

\* int(text) succeeds
IsIntText(str) ==
    LET digits == IF str # <<>> /\ Head(str) = "-" THEN Tail(str) ELSE str
    IN  digits # <<>> /\ \A k \in 1..Len(digits) : IsDigit(digits[k], DecDigits)

\* int(text)
CharsToInt(str) ==
    IF Head(str) = "-" THEN 0 - CharsToNat(Tail(str)) ELSE CharsToNat(str)

RECURSIVE StripZeros(_)
\* the digits of f"{w:x}": no leading zero, at least one digit
StripZeros(w) ==
    IF Len(w) > 1 /\ Head(w) = 0 THEN StripZeros(Tail(w)) ELSE w

HexText(digits) == [k \in 1..Len(digits) |-> HexDigits[digits[k] + 1]]

\* a mutant of float_hex: the low word is never padded
float_hex_lo_unpadded(hi, lo) ==
    IF hi # ZeroWord THEN HexText(hi) \o HexText(StripZeros(lo))
    ELSE HexText(StripZeros(lo))

\* serialize, a float: f'{hi:08x}{lo:08x}' if hi else f'{lo:x}'
float_hex(hi, lo) ==
    IF hi # ZeroWord THEN HexText(hi) \o HexText(lo)
    ELSE HexText(StripZeros(lo))

RECURSIVE serialize(_)
\* serialize(val), as the element the text denotes once its markup is read;
\* the attribute text is kept as written
serialize(val) ==
    CASE val.t = "null" -> El("null", <<>>, <<>>)
      [] val.t = "bool" -> El("b", IF val.b THEN <<"t">> ELSE <<"f">>, <<>>)
      [] val.t = "int" -> El("i", IntToChars(val.i), <<>>)
      [] val.t = "float" -> El("n", float_hex(val.hi, val.lo), <<>>)
      [] val.t = "str" -> El("s", escape(val.s), <<>>)
      [] val.t = "list" ->
            El("a", <<>>, [k \in 1..Len(val.items) |-> serialize(val.items[k])])
      [] val.t = "dict" ->
            El("o", <<>>,
               [k \in 1..Len(val.items) |->
                   El("k", escape(val.items[k].s),
                      <<serialize(val.items[k].items[1])>>)])

Entities == {Amp, Quot, Lt, Gt}

StartsWith(str, pre) ==
    Len(str) >= Len(pre) /\ SubSeq(str, 1, Len(pre)) = pre

EntityAt(str) == CHOOSE e \in Entities : StartsWith(str, e)

RECURSIVE AttrWellFormed(_)
\* the XML parser accepts this attribute text: no bare <, " or &
AttrWellFormed(raw) ==
    IF raw = <<>> THEN TRUE
    ELSE IF Head(raw) \in {"<", "\""} THEN FALSE
    ELSE IF Head(raw) = "&"
    THEN /\ \E e \in Entities : StartsWith(raw, e)
         /\ AttrWellFormed(SubSeq(raw, Len(EntityAt(raw)) + 1, Len(raw)))
    ELSE AttrWellFormed(Tail(raw))

RECURSIVE AttrValue(_)
\* the attribute value the XML parser hands over: entities replaced, and
\* each literal tab, line feed and carriage return (a carriage return and
\* line feed pair counting once) normalised to a space
AttrValue(raw) ==
    IF raw = <<>> THEN <<>>
    ELSE IF Head(raw) = "&"
    THEN LET e == EntityAt(raw)
             c == CASE e = Amp -> "&" [] e = Quot -> "\"" [] e = Lt -> "<"
                    [] e = Gt -> ">"
         IN  <<c>> \o AttrValue(SubSeq(raw, Len(e) + 1, Len(raw)))
    ELSE IF StartsWith(raw, <<"\r", "\n">>)
    THEN <<" ">> \o AttrValue(Tail(Tail(raw)))
    ELSE IF Head(raw) \in {"\t", "\n", "\r"}
    THEN <<" ">> \o AttrValue(Tail(raw))
    ELSE <<Head(raw)>> \o AttrValue(Tail(raw))

RECURSIVE WellFormed(_)
\* ET.fromstring does not raise on the text of this element
WellFormed(el) ==
    /\ AttrWellFormed(el.attr)
    /\ \A k \in 1..Len(el.kids) : WellFormed(el.kids[k])

RECURSIVE Parsed(_)
\* ET.fromstring: the element tree with the attribute values read
Parsed(el) ==
    El(el.tag, AttrValue(el.attr),
       [k \in 1..Len(el.kids) |-> Parsed(el.kids[k])])

\* int(h, 16) succeeds on a string of at most eight digits
IsHexText(str) ==
    /\ Len(str) \in 1..8
    /\ \A k \in 1..Len(str) : IsDigit(str[k], HexDigits)

\* int(h, 16) as a 32-bit word
HexWord(str) ==
    [k \in 1..8 |->
        IF k <= 8 - Len(str) THEN 0
        ELSE DigitOf(str[k - (8 - Len(str))], HexDigits)]

\* _parse_node, tag n: the two words read from the hex string
float_words(h) ==
    IF Len(h) > 8
    THEN [lo |-> HexWord(SubSeq(h, Len(h) - 7, Len(h))),
          hi |-> HexWord(SubSeq(h, 1, Len(h) - 8))]
    ELSE [lo |-> HexWord(h), hi |-> ZeroWord]

\* obj[key] = v on an insertion-ordered dict
EntrySet(entries, key, v) ==
    IF \E k \in 1..Len(entries) : entries[k].s = key
    THEN [k \in 1..Len(entries) |->
             IF entries[k].s = key THEN Entry(key, v) ELSE entries[k]]
    ELSE Append(entries, Entry(key, v))

RECURSIVE Parses(_)
\* _parse_node(el) raises nothing
Parses(el) ==
    CASE el.tag = "i" -> IsIntText(el.attr)
      [] el.tag = "n" ->
            IF Len(el.attr) > 8
            THEN /\ IsHexText(SubSeq(el.attr, Len(el.attr) - 7, Len(el.attr)))
                 /\ IsHexText(SubSeq(el.attr, 1, Len(el.attr) - 8))
            ELSE IsHexText(el.attr)
      [] el.tag = "a" -> \A k \in 1..Len(el.kids) : Parses(el.kids[k])
      [] el.tag = "o" ->
            \A k \in 1..Len(el.kids) :
                (el.kids[k].tag = "k" /\ el.kids[k].kids # <<>>)
                    => Parses(el.kids[k].kids[1])
      [] OTHER -> TRUE

RECURSIVE parse_node(_)
RECURSIVE parse_entries(_, _)
\* _parse_node, tag o: the loop over the children, obj being built
parse_entries(kids, obj) ==
    IF kids = <<>> THEN obj
    ELSE LET k == Head(kids)
         IN  IF k.tag = "k"
             THEN parse_entries(Tail(kids),
                      EntrySet(obj, k.attr,
                               IF k.kids # <<>> THEN parse_node(k.kids[1])
                               ELSE NullVal))
             ELSE parse_entries(Tail(kids), obj)

\* _parse_node(el)
parse_node(el) ==
    CASE el.tag = "s" -> StrVal(el.attr)
      [] el.tag = "i" -> IntVal(CharsToInt(el.attr))
      [] el.tag = "n" ->
            FloatVal(float_words(el.attr).hi, float_words(el.attr).lo)
      [] el.tag = "b" -> BoolVal(el.attr = <<"t">>)
      [] el.tag = "a" ->
            ListVal([k \in 1..Len(el.kids) |-> parse_node(el.kids[k])])
      [] el.tag = "o" -> DictVal(parse_entries(el.kids, <<>>))
      [] OTHER -> NullVal

\* deserialize(s): None when the text is not well-formed or a node raises
deserialize(el) ==
    IF WellFormed(el) /\ Parses(Parsed(el)) THEN parse_node(Parsed(el))
    ELSE NullVal

(***************************************************************************)
(* The state machine                                                       *)
(***************************************************************************)
EmptyDict == [x \in {} |-> None]

\* obs.sent: the game calls made, in order; obs.got[uid]: the envelopes uid's
\* polls have returned, in order.  Only SpecRelay's clients keep this record.
\* obs.gone: the ids of the tables deleted so far, kept by SpecLife only.
NoObs == [sent |-> <<>>, got |-> [u \in UidPool |-> <<>>], gone |-> {}]

\* the request threads of SpecThreads
Threads == {"th1", "th2"}

\* the lock is free and no thread is inside a handler
NoRun == [lock |-> None,
          th |-> [x \in Threads |-> [pc |-> "idle", uid |-> None, out |-> <<>>]]]

\* no value is being serialized
NoCodec == [phase |-> "idle", val |-> NullVal, wire |-> El("null", <<>>, <<>>),
            back |-> NullVal]

Init ==
    /\ sessions = EmptyDict
    /\ tables = <<>>
    /\ pending_names = EmptyDict
    /\ ip_names = EmptyDict
    /\ obs = NoObs
    /\ codec = NoCodec
    /\ run = NoRun

Count(q, kind) == Cardinality({i \in 1..Len(q) : q[i].kind = kind})

\* the registries stay within the sizes explored
BoundedSizes(st) ==
    /\ Len(st.tables) <= MaxTables
    /\ \A i \in 1..Len(st.tables) :
          /\ Len(st.tables[i].host_q) <= MaxQueue
          /\ Len(st.tables[i].guest_q) <= MaxQueue
    /\ \A u \in DOMAIN st.sessions : Len(st.sessions[u].inbox) <= MaxInbox

\* ... and so do the undrained game calls and invite rejections
Bounded(st) ==
    /\ BoundedSizes(st)
    /\ \A i \in 1..Len(st.tables) :
          LET t == st.tables[i]
          IN  /\ Count(t.host_q, "GAMEMESSAGERECEIVED")
                    <= (IF t.robot_mode THEN 2 * MaxMsgs ELSE MaxMsgs)
              /\ Count(t.guest_q, "GAMEMESSAGERECEIVED") <= MaxMsgs
              /\ Count(t.host_q, "TABLEINVITEREJECTED") <= MaxRejects

\* ... and so does the count of polls of a waiting host, except in SpecWait
WaitBounded(st) ==
    \A i \in 1..Len(st.tables) : st.tables[i].wait_polls <= MaxWaitPolls

\* the registries a handler leaves behind
Apply(st) ==
    /\ Bounded(st)
    /\ sessions' = st.sessions
    /\ tables' = st.tables
    /\ UNCHANGED <<run, codec, pending_names, ip_names>>

Handle(st) == Apply(st) /\ UNCHANGED obs

Callers == UidPool \cup {AnonUid}
TableParams == UidPool \cup {None}
FnPool == {"gamePlay", "opponentShooterShooted", "opponentGoal"}
\* what deserialize and the unwrapping make of the message parameter: a dict
\* with a functionName, or no value, or a value that holds no functionName
ObjPool == [shape : {"dict"}, fn : FnPool, params : ParamPool]
              \cup [shape : {"undecodable", "scalar", "dict", "list_of_dict"},
                    fn : {""}, params : ParamPool]

CheckUser(uid, name_param) ==
    /\ pending_names' = check_user(pending_names, uid, name_param)
    /\ UNCHANGED <<sessions, tables, ip_names, obs, codec, run>>

JoinRoom(uid, name_param, ip, new_uid) ==
    LET r == join_room(sessions, pending_names, ip_names,
                       uid, name_param, ip, new_uid)
    IN  /\ sessions' = r.sessions
        /\ pending_names' = r.pending_names
        /\ ip_names' = r.ip_names
        /\ UNCHANGED <<tables, obs, codec, run>>

OpenTable(uid) == Handle(open_table(Registries, uid))

JoinTable(uid, target_tid, seeds) ==
    Handle(join_table(Registries, uid, target_tid, seeds))

InviteToTable_(uid, target_uid, table_param, seeds) ==
    Handle(invite_to_table(Registries, uid, target_uid, table_param, seeds))

RejectInvite(uid, table_uid, host_uid) ==
    Handle(reject_invite(Registries, uid, table_uid, host_uid))

RobotJoinTable(uid, table_param, seeds) ==
    Handle(robot_join_table(Registries, uid, table_param, seeds))

Poll(uid, seeds) == Handle(get_messages(Registries, uid, seeds).st)

\* a poll that keeps the counted polls within MaxWaitPolls
GetMessages(uid, seeds) ==
    /\ WaitBounded(get_messages(Registries, uid, seeds).st)
    /\ Poll(uid, seeds)

GameMessage(uid, obj) == Handle(game_message(Registries, uid, obj))

Leave(uid) == Handle(leave(Registries, uid))

GameEnded(uid) == Handle(game_ended(Registries, uid))

(***************************************************************************)
(* Spec: the table engine.  Three clients join the room, open, join and    *)
(* leave tables, call in the substitute, send game calls and poll.         *)
(***************************************************************************)
Next ==
    \/ \E new_uid \in UidPool, n \in NamePool, ip \in IpPool :
          JoinRoom(AnonUid, n, ip, new_uid)
    \/ \E uid \in Callers : OpenTable(uid)
    \/ \E uid \in Callers, tid \in TableParams, seeds \in SeedPool :
          JoinTable(uid, tid, seeds)
    \/ \E uid \in Callers, seeds \in SeedPool :
          InviteToTable_(uid, "BOT", None, seeds)
    \/ \E uid \in Callers, tid \in TableParams, seeds \in SeedPool :
          RobotJoinTable(uid, tid, seeds)
    \/ \E uid \in Callers, seeds \in SeedPool : GetMessages(uid, seeds)
    \/ \E uid \in Callers, obj \in ObjPool : GameMessage(uid, obj)
    \/ \E uid \in Callers : Leave(uid)
    \/ \E uid \in Callers : GameEnded(uid)

Spec == Init /\ [][Next]_vars

(***************************************************************************)
(* SpecRelay: two clients set a table up, then the occupants of the        *)
(* two-party table send game calls and poll; obs records every call made   *)
(* and every envelope a poll returned.                                     *)
(***************************************************************************)
RelayUids == {"100000", "100001"}

Envelopes(q) == SelectSeq(q, LAMBDA f : f.kind = "GAMEMESSAGERECEIVED")

\* the table uid's session names, if it is a table of two live sessions
AtTwoParty(uid) ==
    /\ uid \in DOMAIN sessions
    /\ HasTable(tables, sessions[uid].table_tid)
    /\ LET t == GetTable(tables, sessions[uid].table_tid)
       IN  /\ t.state = "playing" /\ ~t.robot_mode
           /\ t.host # t.guest
           /\ uid \in {t.host, t.guest}
           /\ \A v \in {t.host, t.guest} :
                 v \in DOMAIN sessions /\ sessions[v].table_tid = t.tid

SendObserved(uid, obj) ==
    LET st == game_message(Registries, uid, obj)
    IN  /\ AtTwoParty(uid)
        /\ Len(obs.sent) < MaxCalls
        /\ BoundedSizes(st)
        /\ sessions' = st.sessions
        /\ tables' = st.tables
        /\ obs' = [obs EXCEPT !.sent =
                      Append(@, [uid |-> uid, fn |-> function_name(obj)])]
        /\ UNCHANGED <<run, codec, pending_names, ip_names>>

PollObserved(uid, seeds) ==
    LET r == get_messages(Registries, uid, seeds)
    IN  /\ uid \in UidPool
        /\ WaitBounded(r.st)
        /\ BoundedSizes(r.st)
        /\ sessions' = r.st.sessions
        /\ tables' = r.st.tables
        /\ obs' = [obs EXCEPT !.got[uid] = @ \o Envelopes(r.out)]
        /\ UNCHANGED <<run, codec, pending_names, ip_names>>

NextRelay ==
    \/ /\ obs.sent = <<>>
       /\ \E new_uid \in RelayUids, n \in NamePool, ip \in IpPool :
             JoinRoom(AnonUid, n, ip, new_uid)
    \/ /\ obs.sent = <<>>
       /\ \E uid \in RelayUids : OpenTable(uid)
    \/ /\ obs.sent = <<>>
       /\ \E uid \in RelayUids, seeds \in SeedPool : JoinTable(uid, None, seeds)
    \/ \E uid \in RelayUids, obj \in ObjPool : SendObserved(uid, obj)
    \/ \E uid \in RelayUids, seeds \in SeedPool : PollObserved(uid, seeds)

SpecRelay == Init /\ [][NextRelay]_vars

(***************************************************************************)
(* SpecWait: two clients enter, invite, open tables, leave and poll, with  *)
(* no cap on the counted polls of a waiting host.                          *)
(***************************************************************************)
WaitUids == {"100000", "100001"}

NextWait ==
    \/ \E new_uid \in WaitUids, n \in NamePool, ip \in IpPool :
          JoinRoom(AnonUid, n, ip, new_uid)
    \/ \E uid \in WaitUids : OpenTable(uid)
    \/ \E uid \in WaitUids, target \in WaitUids, seeds \in SeedPool :
          InviteToTable_(uid, target, uid, seeds)
    \/ \E uid \in WaitUids, seeds \in SeedPool : Poll(uid, seeds)
    \/ \E uid \in WaitUids : Leave(uid)

SpecWait == Init /\ [][NextWait]_vars

(***************************************************************************)
(* SpecLobby: two clients and callers without a session use every table    *)
(* operation, invitations and rejections included.                         *)
(***************************************************************************)
LobbyUids == {"100000", "100001"}

LobbyCallers == LobbyUids \cup {AnonUid}

LobbyParams == LobbyUids \cup {None}

LobbyObjs == {obj \in ObjPool : obj.fn \in {"gamePlay", ""}}

NextLobby ==
    \/ \E new_uid \in LobbyUids, n \in NamePool, ip \in IpPool :
          JoinRoom(AnonUid, n, ip, new_uid)
    \/ \E uid \in LobbyCallers : OpenTable(uid)
    \/ \E uid \in LobbyCallers, tid \in LobbyParams, seeds \in SeedPool :
          JoinTable(uid, tid, seeds)
    \/ \E uid \in LobbyCallers, target \in LobbyUids \cup {"BOT"},
          tid \in LobbyParams, seeds \in SeedPool :
          InviteToTable_(uid, target, tid, seeds)
    \/ \E uid \in LobbyCallers, tid \in LobbyParams, host \in LobbyParams :
          RejectInvite(uid, tid, host)
    \/ \E uid \in LobbyCallers, tid \in LobbyParams, seeds \in SeedPool :
          RobotJoinTable(uid, tid, seeds)
    \/ \E uid \in LobbyCallers, seeds \in SeedPool : GetMessages(uid, seeds)
    \/ \E uid \in LobbyCallers, obj \in LobbyObjs : GameMessage(uid, obj)
    \/ \E uid \in LobbyCallers : Leave(uid)
    \/ \E uid \in LobbyCallers : GameEnded(uid)

SpecLobby == Init /\ [][NextLobby]_vars

(***************************************************************************)
(* SpecLife: two clients open, join and leave tables, two tables at most   *)
(* alive at once; obs.gone collects the id of every table deleted.         *)
(***************************************************************************)
LifeUids == {"100000", "100001"}

TableIds(T) == {T[i].tid : i \in 1..Len(T)}

\* the tables leave_table(uid) deletes: every table operation leaves first
Gone(uid) == TableIds(tables) \ TableIds(leave_table(Registries, uid).tables)

BoundedLife(st) ==
    /\ Len(st.tables) <= MaxLifeTables
    /\ \A i \in 1..Len(st.tables) :
          /\ Len(st.tables[i].host_q) <= MaxQueue
          /\ Len(st.tables[i].guest_q) <= MaxQueue

Tracked(st, uid) ==
    /\ BoundedLife(st)
    /\ sessions' = st.sessions
    /\ tables' = st.tables
    /\ obs' = [obs EXCEPT !.gone = @ \cup Gone(uid)]
    /\ UNCHANGED <<run, codec, pending_names, ip_names>>

LifeOpen(uid) == Tracked(open_table(Registries, uid), uid)

LifeJoin(uid, seeds) == Tracked(join_table(Registries, uid, None, seeds), uid)

LifeLeave(uid) == Tracked(leave(Registries, uid), uid)

LifeEnded(uid) == Tracked(game_ended(Registries, uid), uid)

LifePoll(uid, seeds) ==
    LET r == get_messages(Registries, uid, seeds)
    IN  /\ WaitBounded(r.st)
        /\ BoundedLife(r.st)
        /\ sessions' = r.st.sessions
        /\ tables' = r.st.tables
        /\ UNCHANGED <<run, codec, pending_names, ip_names, obs>>

NextLife ==
    \/ \E new_uid \in LifeUids, n \in NamePool, ip \in IpPool :
          JoinRoom(AnonUid, n, ip, new_uid)
    \/ \E uid \in LifeUids : LifeOpen(uid)
    \/ \E uid \in LifeUids, seeds \in SeedPool : LifeJoin(uid, seeds)
    \/ \E uid \in LifeUids : LifeLeave(uid)
    \/ \E uid \in LifeUids : LifeEnded(uid)
    \/ \E uid \in LifeUids, seeds \in SeedPool : LifePoll(uid, seeds)

SpecLife == Init /\ [][NextLife]_vars

(***************************************************************************)
(* SpecRobot: one client opens a table, has the substitute seated, then    *)
(* sends game calls and polls; obs records the calls and the envelopes     *)
(* the polls returned.                                                     *)
(***************************************************************************)
RobotUids == {"100000", "100001"}

RobotFns == {"startShoot", "gamePlay", "opponentShooterShooted"}

RobotObjs == [shape : {"dict"}, fn : RobotFns, params : ParamPool]

\* uid is the live host of a substitute-occupied table
AtRobotTable(uid) ==
    /\ uid \in DOMAIN sessions
    /\ HasTable(tables, sessions[uid].table_tid)
    /\ LET t == GetTable(tables, sessions[uid].table_tid)
       IN  t.robot_mode /\ t.host = uid /\ t.guest = ROBOT_UID

SendToRobot(uid, obj) ==
    LET st == game_message(Registries, uid, obj)
    IN  /\ AtRobotTable(uid)
        /\ Len(obs.sent) < MaxCalls
        /\ BoundedSizes(st)
        /\ sessions' = st.sessions
        /\ tables' = st.tables
        /\ obs' = [obs EXCEPT !.sent =
                      Append(@, [uid |-> uid, fn |-> function_name(obj)])]
        /\ UNCHANGED <<run, codec, pending_names, ip_names>>

NextRobot ==
    \/ /\ obs.sent = <<>>
       /\ \E new_uid \in RobotUids, n \in NamePool, ip \in IpPool :
             JoinRoom(AnonUid, n, ip, new_uid)
    \/ /\ obs.sent = <<>>
       /\ \E uid \in RobotUids : OpenTable(uid)
    \/ /\ obs.sent = <<>>
       /\ \E uid \in RobotUids, seeds \in SeedPool :
             InviteToTable_(uid, "BOT", None, seeds)
    \/ \E uid \in RobotUids, obj \in RobotObjs : SendToRobot(uid, obj)
    \/ \E uid \in RobotUids, seeds \in SeedPool : PollObserved(uid, seeds)

SpecRobot == Init /\ [][NextRobot]_vars

(***************************************************************************)
(* SpecCodec: one value is serialized and the text is deserialized         *)
(***************************************************************************)
MaxStrLen == 2
MaxDepth == 3

\* the characters strings are built from: the four escaped ones, the
\* characters an entity is written with, white space
Alphabet == {"a", "&", "\"", "<", ">", ";", " ", "\n"}

RECURSIVE StrsOfLen(_)
StrsOfLen(n) ==
    IF n = 0 THEN {<<>>}
    ELSE {Append(str, c) : str \in StrsOfLen(n - 1), c \in Alphabet}

Strs == UNION {StrsOfLen(n) : n \in 0..MaxStrLen}

\* 32-bit words: zero, small, the top bit, all ones, leading and trailing zeros
Words ==
    {ZeroWord, <<0, 0, 0, 0, 0, 0, 0, 1>>, <<0, 0, 0, 0, 0, 0, 1, 0>>,
     <<0, 0, 0, 15, 0, 0, 0, 0>>, <<1, 2, 3, 4, 5, 6, 7, 8>>,
     <<3, 15, 15, 8, 0, 0, 0, 0>>, <<8, 0, 0, 0, 0, 0, 0, 0>>,
     <<15, 15, 15, 15, 15, 15, 15, 15>>}

Ints == {0, 7, 42, 1000, 0 - 5, 2147483647, 0 - 2147483647}

\* the words are those of a NaN: exponent all ones, mantissa not zero
IsNaN(hi, lo) ==
    /\ hi[1] % 8 = 7 /\ hi[2] = 15 /\ hi[3] = 15
    /\ (lo # ZeroWord \/ \E k \in 4..8 : hi[k] # 0)

Atoms ==
    {NullVal} \cup {BoolVal(b) : b \in BOOLEAN} \cup {IntVal(i) : i \in Ints}
        \cup {FloatVal(hi, lo) : hi \in Words, lo \in Words}
        \cup {StrVal(str) : str \in Strs}

\* the values containers are built over, and their keys
CoreAtoms ==
    {NullVal, BoolVal(TRUE), IntVal(0 - 5),
     FloatVal(<<3, 15, 15, 8, 0, 0, 0, 0>>, ZeroWord),
     FloatVal(ZeroWord, <<0, 0, 0, 0, 0, 0, 1, 0>>),
     StrVal(<<"&", "\"">>), StrVal(<<"<", ">">>), StrVal(<<"a", "\n">>)}

Keys == {<<"a">>, <<"&", "<">>, <<"a", "\n">>, <<"a", " ">>}

\* lists and dicts one level above the values of S
Containers(S) ==
    {ListVal(<<>>), DictVal(<<>>)}
        \cup {ListVal(<<v>>) : v \in S}
        \cup {ListVal(<<v, w>>) : v \in S, w \in CoreAtoms}
        \cup {DictVal(<<Entry(k, v)>>) : k \in Keys, v \in S}
        \cup {DictVal(<<Entry(kl[1], v), Entry(kl[2], NullVal)>>) :
                 kl \in {p \in Keys \X Keys : p[1] # p[2]}, v \in S}

\* a list, a two-element list and a dict around each value of S
Nested(S) ==
    {ListVal(<<v>>) : v \in S}
        \cup {ListVal(<<StrVal(<<"&">>), v>>) : v \in S}
        \cup {DictVal(<<Entry(<<"<", "a">>, v)>>) : v \in S}

RECURSIVE ValuesOfDepth(_)
ValuesOfDepth(d) ==
    IF d = 1 THEN Containers(CoreAtoms) ELSE Nested(ValuesOfDepth(d - 1))

Values == Atoms \cup UNION {ValuesOfDepth(d) : d \in 1..MaxDepth}

InitCodec ==
    /\ sessions = EmptyDict
    /\ tables = <<>>
    /\ pending_names = EmptyDict
    /\ ip_names = EmptyDict
    /\ obs = NoObs
    /\ codec \in {[phase |-> "value", val |-> v, wire |-> El("null", <<>>, <<>>),
                   back |-> NullVal] : v \in Values}
    /\ run = NoRun

Encode ==
    /\ codec.phase = "value"
    /\ codec' = [codec EXCEPT !.phase = "wire", !.wire = serialize(codec.val)]
    /\ UNCHANGED <<sessions, tables, pending_names, ip_names, obs, run>>

Decode ==
    /\ codec.phase = "wire"
    /\ codec' = [codec EXCEPT !.phase = "done", !.back = deserialize(codec.wire)]
    /\ UNCHANGED <<sessions, tables, pending_names, ip_names, obs, run>>

NextCodec ==
    \/ Encode
    \/ Decode

SpecCodec == InitCodec /\ [][NextCodec]_vars

(***************************************************************************)
(* SpecDecode: a payload that need not come from serialize is deserialized *)
(***************************************************************************)
\* elements serialize writes
GoodPayloads == {serialize(v) : v \in CoreAtoms \cup ValuesOfDepth(1)}

\* elements with a tag _parse_node does not know
UnknownEls == {El("x", <<>>, <<>>), El("x", <<"1">>, <<El("i", <<"1">>, <<>>)>>)}

\* a list, a map entry and a map child that is no k element around el
Wrapped(el) ==
    {El("a", <<>>, <<el>>),
     El("a", <<>>, <<El("i", <<"1">>, <<>>), el>>),
     El("o", <<>>, <<El("k", <<"a">>, <<el>>)>>),
     El("o", <<>>, <<El("k", <<"a">>, <<El("i", <<"1">>, <<>>)>>),
                     El("z", <<"b">>, <<el>>)>>)}

RECURSIVE PayloadsOfDepth(_)
PayloadsOfDepth(d) ==
    IF d = 0 THEN UnknownEls \cup {serialize(v) : v \in CoreAtoms}
    ELSE UNION {Wrapped(el) : el \in PayloadsOfDepth(d - 1)}

Payloads == GoodPayloads \cup UNION {PayloadsOfDepth(d) : d \in 0..MaxDepth}

InitDecode ==
    /\ sessions = EmptyDict
    /\ tables = <<>>
    /\ pending_names = EmptyDict
    /\ ip_names = EmptyDict
    /\ obs = NoObs
    /\ codec \in {[phase |-> "payload", val |-> NullVal, wire |-> el,
                   back |-> NullVal] : el \in Payloads}
    /\ run = NoRun

DecodePayload ==
    /\ codec.phase = "payload"
    /\ codec' = [codec EXCEPT !.phase = "decoded",
                              !.back = deserialize(codec.wire)]
    /\ UNCHANGED <<sessions, tables, pending_names, ip_names, obs, run>>

NextDecode == DecodePayload

SpecDecode == InitDecode /\ [][NextDecode]_vars

(***************************************************************************)
(* SpecThreads: requests run on threads of their own.  A poll that reaches *)
(* q_pop is taken apart into its steps: entering the lock and counting the *)
(* poll, reading the queue, emptying it and leaving.  obs.got collects     *)
(* every fragment a poll returned, obs.sent every game call made.          *)
(***************************************************************************)
ThreadUids == {"100000", "100001"}

\* a mutant of lock_free: the handler does not wait for the lock
lock_ignored(l) == TRUE

\* with lock: a thread enters once no thread holds the lock
lock_free(l) == l = None

\* _get_messages(uid) goes on to q_pop
PopPath(uid) ==
    /\ uid \in DOMAIN sessions
    /\ sessions[uid].inbox = <<>>
    /\ sessions[uid].table_tid # None
    /\ HasTable(tables, sessions[uid].table_tid)

\* _get_messages(uid) from the lookup of the table up to q_pop: the tables
\* with the poll counted and the substitute seated at the limit
counted_tables(st, uid, seeds) ==
    LET tid == st.sessions[uid].table_tid
        t == GetTable(st.tables, tid)
        counted == t.state = "open" /\ ~t.robot_mode /\ t.host = uid
        t1 == IF counted THEN [t EXCEPT !.wait_polls = @ + 1] ELSE t
        T1 == PutTable(st.tables, tid, t1)
    IN  IF counted /\ t1.wait_polls >= wait_limit(st.sessions, uid)
        THEN robot_join_now(T1, tid, seeds) ELSE T1

AllIdle == \A x \in Threads : run.th[x].pc = "idle"

\* thread x enters _get_messages(uid) and counts the poll
PollEnter(x, uid, seeds) ==
    LET T2 == counted_tables(Registries, uid, seeds)
    IN  /\ run.th[x].pc = "idle"
        /\ lock_free(run.lock)
        /\ PopPath(uid)
        /\ WaitBounded([sessions |-> sessions, tables |-> T2])
        /\ BoundedSizes([sessions |-> sessions, tables |-> T2])
        /\ tables' = T2
        /\ run' = [lock |-> x,
                   th |-> [run.th EXCEPT ![x] =
                              [pc |-> "pop_read", uid |-> uid, out |-> <<>>]]]
        /\ UNCHANGED <<sessions, pending_names, ip_names, obs, codec>>

\* q_pop: "".join(queue) is evaluated
PopRead(x) ==
    LET uid == run.th[x].uid
        t == GetTable(tables, sessions[uid].table_tid)
    IN  /\ run.th[x].pc = "pop_read"
        /\ run' = [run EXCEPT !.th[x].pc = "pop_write",
                              !.th[x].out = q_pop(t, uid).out]
        /\ UNCHANGED <<sessions, tables, pending_names, ip_names, obs, codec>>

\* q_pop: the queue is assigned [], the lock is left, the text is returned
PopWrite(x) ==
    LET uid == run.th[x].uid
        tid == sessions[uid].table_tid
        t == GetTable(tables, tid)
    IN  /\ run.th[x].pc = "pop_write"
        /\ tables' = PutTable(tables, tid, q_pop(t, uid).table)
        /\ obs' = [obs EXCEPT !.got[uid] = @ \o run.th[x].out]
        /\ run' = [lock |-> IF run.lock = x THEN None ELSE run.lock,
                   th |-> [run.th EXCEPT ![x].pc = "idle", ![x].out = <<>>]]
        /\ UNCHANGED <<sessions, pending_names, ip_names, codec>>

\* _game_message(uid, p) by an occupant of a two-party table, under the lock
SendLocked(uid, obj) == lock_free(run.lock) /\ SendObserved(uid, obj)

\* the tables are set up before the first game call, one request at a time
SetUp == run.lock = None /\ AllIdle /\ obs.sent = <<>>

NextThreads ==
    \/ /\ SetUp /\ tables = <<>>
       /\ \E new_uid \in ThreadUids, n \in NamePool, ip \in IpPool :
             JoinRoom(AnonUid, n, ip, new_uid)
    \/ /\ SetUp
       /\ \E uid \in ThreadUids :
             /\ uid \in DOMAIN sessions /\ sessions[uid].table_tid = None
             /\ OpenTable(uid)
    \/ /\ SetUp
       /\ \E uid \in ThreadUids, seeds \in SeedPool :
             /\ uid \in DOMAIN sessions /\ sessions[uid].table_tid = None
             /\ JoinTable(uid, None, seeds)
    \/ \E x \in Threads, uid \in ThreadUids, seeds \in SeedPool :
          PollEnter(x, uid, seeds)
    \/ \E x \in Threads : PopRead(x)
    \/ \E x \in Threads : PopWrite(x)
    \/ \E uid \in ThreadUids, obj \in RobotObjs : SendLocked(uid, obj)

SpecThreads == Init /\ [][NextThreads]_vars

(***************************************************************************)
(* Vocabulary of the properties                                            *)
(***************************************************************************)
Live(u) == u \in DOMAIN sessions

\* a Playing table whose guest is a session, not the substitute
TwoHuman(t) ==
    /\ t.state = "playing"
    /\ ~t.robot_mode
    /\ t.guest \notin {None, ROBOT_UID}
    /\ t.host # t.guest

\* u sits at t and knows it
SitsAt(u, t) ==
    /\ Live(u)
    /\ sessions[u].table_tid = t.tid
    /\ u \in {t.host, t.guest}

\* a Playing table of two live sessions that both name it
TwoParty(t) == TwoHuman(t) /\ SitsAt(t.host, t) /\ SitsAt(t.guest, t)

Last(q) == q[Len(q)]

Kinds(q) == [i \in 1..Len(q) |-> q[i].kind]

IsEnvelope(f) == f.kind = "GAMEMESSAGERECEIVED"

\* the tables u is host or guest of
TablesOf(T, u) == {i \in 1..Len(T) : T[i].host = u \/ T[i].guest = u}

(***************************************************************************)
(* C5: a live session's table_tid is set iff the session is host or guest  *)
(* of exactly one live table, and then it names that table.                *)
(***************************************************************************)
C5_TableRefIffOccupant ==
    \A u \in DOMAIN sessions :
        LET occ == TablesOf(tables, u)
        IN  /\ sessions[u].table_tid # None <=> Cardinality(occ) = 1
            /\ \A i \in occ : tables[i].tid = sessions[u].table_tid

(***************************************************************************)
(* C6: every live table is Playing iff its guest slot is filled.           *)
(***************************************************************************)
C6_PlayingIffGuest ==
    \A i \in 1..Len(tables) :
        tables[i].state = "playing" <=> tables[i].guest # None

\* the substitute sits in the guest slot of a Playing table
C6_Witness ==
    \E i \in 1..Len(tables) :
        /\ tables[i].guest = ROBOT_UID
        /\ tables[i].state = "playing"
        /\ tables[i].wait_polls > 0

(***************************************************************************)
(* C1: in a Playing table of two humans, one synchronized call f by an     *)
(* occupant appends exactly one envelope to the host queue and exactly one *)
(* to the guest queue; both carry f, f as synchronization tag and the      *)
(* sender's own index (0 for the host, 1 for the guest).                   *)
(***************************************************************************)
C1_SyncCallOnceToBoth ==
    [][ \A uid \in UidPool, obj \in ObjPool, i \in 1..Len(tables) :
          ( /\ TwoParty(tables[i])
            /\ SitsAt(uid, tables[i])
            /\ obj.shape = "dict"
            /\ obj.fn \in SYNC_FNS
            /\ GameMessage(uid, obj) )
          => LET t == tables[i]
                 own == IF uid = t.host THEN 0 ELSE 1
                 after == GetTable(tables', t.tid)
                 sentTo(before, q) ==
                     /\ Len(q) = Len(before) + 1
                     /\ SubSeq(q, 1, Len(before)) = before
                     /\ IsEnvelope(Last(q))
                     /\ Last(q).fn = obj.fn
                     /\ Last(q).sync = obj.fn
                     /\ Last(q).idx = own
                     /\ Last(q).params = obj.params
             IN  /\ sentTo(t.host_q, after.host_q)
                 /\ sentTo(t.guest_q, after.guest_q) ]_vars

\* the guest of a two-human table has made a synchronized call
C1_Witness ==
    \E i \in 1..Len(tables) :
        LET t == tables[i]
        IN  /\ TwoParty(t)
            /\ t.host_q # <<>> /\ t.guest_q # <<>>
            /\ IsEnvelope(Last(t.host_q))
            /\ Last(t.host_q) = Last(t.guest_q)
            /\ Last(t.host_q).sync \in SYNC_FNS
            /\ Last(t.host_q).idx = 1

(***************************************************************************)
(* C10: at a substitute-occupied table a synchronized call f by the host   *)
(* appends exactly two envelopes to the host queue, index 0 then index 1,  *)
(* both with f as synchronization tag, and nothing to the guest queue.     *)
(***************************************************************************)
C10_SubstituteAnswersSync ==
    [][ \A uid \in UidPool, obj \in ObjPool, i \in 1..Len(tables) :
          ( /\ tables[i].robot_mode
            /\ tables[i].host = uid
            /\ SitsAt(uid, tables[i])
            /\ obj.shape = "dict"
            /\ obj.fn \in SYNC_FNS
            /\ GameMessage(uid, obj) )
          => LET t == tables[i]
                 after == GetTable(tables', t.tid)
                 n == Len(t.host_q)
                 q == after.host_q
             IN  /\ Len(q) = n + 2
                 /\ SubSeq(q, 1, n) = t.host_q
                 /\ \A k \in {0, 1} :
                       /\ IsEnvelope(q[n + 1 + k])
                       /\ q[n + 1 + k].fn = obj.fn
                       /\ q[n + 1 + k].sync = obj.fn
                       /\ q[n + 1 + k].idx = k
                       /\ q[n + 1 + k].params = obj.params
                 /\ after.guest_q = t.guest_q ]_vars

\* the host of a substitute table has made a synchronized call
C10_Witness ==
    \E i \in 1..Len(tables) :
        LET t == tables[i]
            n == Len(t.host_q)
        IN  /\ t.robot_mode
            /\ SitsAt(t.host, t)
            /\ n >= 2
            /\ IsEnvelope(t.host_q[n - 1]) /\ t.host_q[n - 1].idx = 0
            /\ IsEnvelope(t.host_q[n]) /\ t.host_q[n].idx = 1
            /\ t.host_q[n].sync \in SYNC_FNS
            /\ t.guest_q = <<>>

(***************************************************************************)
(* C4: when session B joins with no target id while session A hosts an     *)
(* Open table, the table becomes Playing with guest B; the guest queue     *)
(* gets, in order, a join confirmation (never an open confirmation), A's   *)
(* joined notice, B's joined notice, start-confirmation and match-started, *)
(* the host queue B's joined notice, start-confirmation and match-started, *)
(* and neither queue gets a function-call envelope.  A's table is the one  *)
(* find_open_table picks once B has left the table it sat at, if any.      *)
(***************************************************************************)
\* the table find_open_table picks for c: open, guest-free, not the
\* substitute's, not c's own, and the first such in the registry
Joinable(T, i, c) ==
    LET ok(j) == /\ T[j].state = "open" /\ T[j].guest = None
                 /\ ~T[j].robot_mode /\ T[j].host # c
    IN  ok(i) /\ \A j \in 1..(i - 1) : ~ok(j)

C4_JoinConnectsInOrder ==
    [][ \A b \in UidPool, seeds \in SeedPool, i \in 1..Len(tables) :
          ( /\ Live(b)
            /\ i <= Len(leave_table(Registries, b).tables)
            /\ Joinable(leave_table(Registries, b).tables, i, b)
            /\ LET t == leave_table(Registries, b).tables[i]
               IN  /\ t.host \in DOMAIN leave_table(Registries, b).sessions
                   /\ leave_table(Registries, b).sessions[t.host].table_tid
                         = t.tid
            /\ JoinTable(b, None, seeds) )
          => LET t == leave_table(Registries, b).tables[i]
                 a == t.host
                 after == GetTable(tables', t.tid)
                 n == Len(t.host_q)
                 hq == after.host_q
                 gq == after.guest_q
             IN  /\ after.state = "playing"
                 /\ after.guest = b
                 /\ ~after.robot_mode
                 /\ sessions'[b].table_tid = t.tid
                 /\ Kinds(gq) = << "JOINTABLERESULT", "PLAYERJOINEDTABLE",
                                   "PLAYERJOINEDTABLE", "STARTPLAYINGRESULT",
                                   "PLAYINGSTARTED" >>
                 /\ gq[1].tid = t.tid
                 /\ gq[2].uid = a /\ gq[2].name = sessions[a].name
                 /\ gq[3].uid = b /\ gq[3].name = sessions[b].name
                 /\ gq[5].tid = t.tid /\ gq[5].seeds = seeds
                 /\ Len(hq) = n + 3
                 /\ SubSeq(hq, 1, n) = t.host_q
                 /\ Kinds(SubSeq(hq, n + 1, n + 3)) =
                       << "PLAYERJOINEDTABLE", "STARTPLAYINGRESULT",
                          "PLAYINGSTARTED" >>
                 /\ hq[n + 1].uid = b /\ hq[n + 1].name = sessions[b].name
                 /\ hq[n + 3].tid = t.tid /\ hq[n + 3].seeds = seeds ]_vars

\* B has just been connected to A's table: nobody has polled since
C4_Witness ==
    \E i \in 1..Len(tables) :
        LET t == tables[i]
        IN  /\ TwoParty(t)
            /\ Len(t.guest_q) = 5
            /\ t.guest_q[1].kind = "JOINTABLERESULT"
            /\ t.guest_q[2].uid = t.host
            /\ t.guest_q[3].uid = t.guest
            /\ Len(t.host_q) = 5
            /\ t.host_q[1].kind = "OPENTABLERESULT"
            /\ t.host_q[3].uid = t.guest

C8_GuestLeaveReopens ==
    [][ /\ \A i \in 1..Len(tables) :
             ( /\ TwoParty(tables[i])
               /\ Leave(tables[i].guest) \/ GameEnded(tables[i].guest) )
             => LET t == tables[i]
                    after == GetTable(tables', t.tid)
                IN  /\ HasTable(tables', t.tid)
                    /\ after.host = t.host
                    /\ after.state = "open"
                    /\ after.guest = None
                    /\ after.guest_name = None
                    /\ after.guest_q = <<>>
                    /\ after.wait_polls = 0
                    /\ ~after.robot_mode
                    /\ t.guest \in DOMAIN sessions'
                          => sessions'[t.guest].table_tid = None
                    /\ \A c \in UidPool \ {t.host} :
                          \E j \in 1..TableIndex(tables', t.tid) :
                              Joinable(tables', j, c)
        /\ \A c \in UidPool, seeds \in SeedPool, i \in 1..Len(tables) :
             ( /\ Live(c)
               /\ sessions[c].table_tid = None
               /\ Joinable(tables, i, c)
               /\ JoinTable(c, None, seeds) )
             => /\ GetTable(tables', tables[i].tid).guest = c
                /\ GetTable(tables', tables[i].tid).state = "playing"
                /\ sessions'[c].table_tid = tables[i].tid ]_vars

\* the guest has left (its joined notice is still in the host queue, the
\* table is Open again) and a third session is there to join
C8_Witness ==
    \E i \in 1..Len(tables), c \in DOMAIN sessions :
        LET t == tables[i]
        IN  /\ t.state = "open" /\ t.guest = None
            /\ SitsAt(t.host, t)
            /\ sessions[c].table_tid = None
            /\ Joinable(tables, i, c)
            /\ \E k \in 1..Len(t.host_q) :
                  /\ t.host_q[k].kind = "PLAYERJOINEDTABLE"
                  /\ t.host_q[k].uid \notin {t.host, c, ROBOT_UID}

(***************************************************************************)
(* Vocabulary of the relay properties (SpecRelay)                          *)
(***************************************************************************)
\* how many times u has called fn
CallsOf(u, fn) ==
    Len(SelectSeq(obs.sent, LAMBDA c : c.uid = u /\ c.fn = fn))

\* the envelopes of fn among the fragments q
EnvelopesOf(q, fn) ==
    SelectSeq(q, LAMBDA f : IsEnvelope(f) /\ f.fn = fn)

\* the envelopes of fn tagged idx among the fragments q
TaggedOf(q, fn, idx) ==
    SelectSeq(q, LAMBDA f : IsEnvelope(f) /\ f.fn = fn /\ f.idx = idx)

\* the queue of occupant u of t
QueueOf(t, u) == IF u = t.host THEN t.host_q ELSE t.guest_q

IndexOf(t, u) == IF u = t.host THEN 0 ELSE 1

C3_AsyncOneWay ==
    \A i \in 1..Len(tables), fn \in ASYNC_FNS :
        LET t == tables[i]
        IN  TwoParty(t)
            => \A u \in {t.host, t.guest} :
                  LET o == other_uid(t, u)
                      own == IndexOf(t, u)
                      there == TaggedOf(obs.got[o] \o QueueOf(t, o), fn, own)
                  IN  /\ TaggedOf(obs.got[u] \o QueueOf(t, u), fn, own) = <<>>
                      /\ Len(there) = CallsOf(u, fn)
                      /\ \A k \in 1..Len(there) : there[k].sync = None
                      /\ TaggedOf(QueueOf(t, o), fn, own) = <<>>
                         => Len(TaggedOf(obs.got[o], fn, own)) = CallsOf(u, fn)

\* the host made one asynchronous call and the guest has drained it
C3_Witness ==
    \E i \in 1..Len(tables), fn \in ASYNC_FNS :
        LET t == tables[i]
        IN  /\ TwoParty(t)
            /\ CallsOf(t.host, fn) = 1
            /\ Len(TaggedOf(obs.got[t.guest], fn, 0)) = 1
            /\ t.guest_q = <<>>
            /\ EnvelopesOf(obs.got[t.host], fn) = <<>>

(***************************************************************************)
(* C9: for a host alone at an Open table without substitute, a poll with   *)
(* empty inbox increments wait_polls, and it seats the substitute (table   *)
(* Playing, substitute as guest) exactly when the incremented count has    *)
(* reached the limit in force at that poll: ROBOT_WAIT_SOLO when no other  *)
(* session is without a table, ROBOT_WAIT_LOBBY otherwise.  A poll whose   *)
(* incremented count is below that limit leaves the table Open.            *)
(***************************************************************************)
C9_SubstituteAfterLimit ==
    [][ \A uid \in UidPool, seeds \in SeedPool, i \in 1..Len(tables) :
          ( /\ tables[i].state = "open"
            /\ ~tables[i].robot_mode
            /\ tables[i].guest = None
            /\ tables[i].host = uid
            /\ Live(uid)
            /\ sessions[uid].table_tid = tables[i].tid
            /\ sessions[uid].inbox = <<>>
            /\ Poll(uid, seeds) )
          => LET t == tables[i]
                 after == GetTable(tables', t.tid)
                 others == {v \in DOMAIN sessions \ {uid} :
                               sessions[v].table_tid = None}
                 limit == IF others = {} THEN 12 ELSE 80
             IN  /\ HasTable(tables', t.tid)
                 /\ after.wait_polls = t.wait_polls + 1
                 /\ IF after.wait_polls >= limit
                    THEN /\ after.state = "playing"
                         /\ after.robot_mode
                         /\ after.guest = ROBOT_UID
                    ELSE /\ after.state = "open"
                         /\ ~after.robot_mode
                         /\ after.guest = None ]_vars

\* the substitute was seated on the host's 80th counted poll
C9_Witness ==
    \E i \in 1..Len(tables) :
        /\ tables[i].robot_mode
        /\ tables[i].state = "playing"
        /\ tables[i].guest = ROBOT_UID
        /\ tables[i].wait_polls = ROBOT_WAIT_LOBBY

(***************************************************************************)
(* C11: a poll by a session whose inbox is not empty returns exactly the   *)
(* inbox and empties it; the table queues, wait_polls and state of every   *)
(* table, and every other session, stay as they were (so the substitute    *)
(* is not seated on that poll).                                            *)
(***************************************************************************)
C11_InboxPollOnlyDrainsInbox ==
    [][ \A uid \in UidPool, seeds \in SeedPool :
          ( /\ Live(uid)
            /\ sessions[uid].inbox # <<>>
            /\ Poll(uid, seeds) )
          => /\ get_messages(Registries, uid, seeds).out = sessions[uid].inbox
             /\ sessions' = [sessions EXCEPT ![uid].inbox = <<>>]
             /\ tables' = tables ]_vars

\* an invited session has opened a table, holds undrained table events and
\* an undrained invitation, and is about to poll
C11_Witness ==
    \E uid \in UidPool, i \in 1..Len(tables) :
        /\ Live(uid)
        /\ sessions[uid].inbox # <<>>
        /\ sessions[uid].inbox[1].kind = "INVITETOTABLE"
        /\ sessions[uid].table_tid = tables[i].tid
        /\ tables[i].host = uid
        /\ tables[i].state = "open"
        /\ tables[i].host_q # <<>>
        /\ ENABLED Poll(uid, "1,1")

(***************************************************************************)
(* Vocabulary of the lobby properties (SpecLobby)                          *)
(***************************************************************************)
NoEffect == sessions' = sessions /\ tables' = tables

\* the table _robot_join_table settles on for a caller without a session
RobotJoinTarget(T, table_param) ==
    IF table_param # None /\ HasTable(T, table_param)
    THEN TableIndex(T, table_param)
    ELSE IF \E i \in 1..Len(T) : ~T[i].robot_mode
    THEN CHOOSE i \in 1..Len(T) :
            ~T[i].robot_mode /\ \A j \in 1..(i - 1) : T[j].robot_mode
    ELSE 0

(***************************************************************************)
(* C12 as claimed: every operation called with an id that names no live    *)
(* session (open-table, join-table, poll, send-function-call, leave,       *)
(* game-ended, invite, reject-invite, substitute-join) changes no session, *)
(* no table and no queue.                                                  *)
(***************************************************************************)
C12_UnknownCallerChangesNothing ==
    [][ \A uid \in LobbyCallers :
          ( /\ ~Live(uid)
            /\ \/ OpenTable(uid)
               \/ Leave(uid)
               \/ GameEnded(uid)
               \/ \E obj \in LobbyObjs : GameMessage(uid, obj)
               \/ \E seeds \in SeedPool : GetMessages(uid, seeds)
               \/ \E tid \in LobbyParams, seeds \in SeedPool :
                     \/ JoinTable(uid, tid, seeds)
                     \/ RobotJoinTable(uid, tid, seeds)
                     \/ \E target \in LobbyUids \cup {"BOT"} :
                           InviteToTable_(uid, target, tid, seeds)
               \/ \E tid \in LobbyParams, host \in LobbyParams :
                     RejectInvite(uid, tid, host) )
          => NoEffect ]_vars

(***************************************************************************)
(* C12 amended: open-table, join-table, poll, send-function-call, leave,   *)
(* game-ended and invite, called with an id that names no live session,    *)
(* change no session, no table and no queue in any reachable state, and    *)
(* the poll returns nothing.                                               *)
(* Reject-invite by such a caller still appends a rejection notice naming  *)
(* the caller to the host queue of the live table it names; substitute-    *)
(* join by such a caller still seats the substitute at the table it names  *)
(* or, failing that, at the first table without substitute.                *)
(***************************************************************************)
C12_UnknownCallerSevenOps ==
    \A uid \in LobbyCallers, tid \in LobbyParams, seeds \in SeedPool :
        ~Live(uid)
        => /\ open_table(Registries, uid) = Registries
           /\ leave(Registries, uid) = Registries
           /\ game_ended(Registries, uid) = Registries
           /\ \A obj \in LobbyObjs :
                 game_message(Registries, uid, obj) = Registries
           /\ get_messages(Registries, uid, seeds)
                 = [st |-> Registries, out |-> <<>>]
           /\ join_table(Registries, uid, tid, seeds) = Registries
           /\ \A target \in LobbyUids \cup {"BOT"} :
                 invite_to_table(Registries, uid, target, tid, seeds)
                    = Registries
           /\ (tid # None /\ HasTable(tables, tid))
              => LET after == reject_invite(Registries, uid, tid, None)
                 IN  /\ after.sessions = sessions
                     /\ Len(after.tables) = Len(tables)
                     /\ \A i \in 1..Len(tables) :
                           after.tables[i] =
                              IF tables[i].tid = tid
                              THEN [tables[i] EXCEPT !.host_q = Append(@,
                                       TableInviteRejected(uid, tid))]
                              ELSE tables[i]
           /\ RobotJoinTarget(tables, tid) # 0
              => LET i == RobotJoinTarget(tables, tid)
                     after == robot_join_table(Registries, uid, tid, seeds)
                 IN  /\ after.tables[i].robot_mode
                     /\ after.tables[i].state = "playing"
                     /\ after.tables[i].guest = ROBOT_UID
                     /\ after.tables[i].guest_q = <<>>
                     /\ ~tables[i].robot_mode
                        => /\ Len(after.tables[i].host_q) >= 4
                           /\ Last(after.tables[i].host_q).kind
                                 = "PLAYINGSTARTED"
                     /\ \A v \in DOMAIN sessions :
                           after.sessions[v].table_tid # None
                           => after.sessions[v].table_tid
                                 = sessions[v].table_tid

\* two live sessions sit at a table with undrained events while callers
\* without a session are about to use it
C12_Witness ==
    \E i \in 1..Len(tables) :
        /\ TwoParty(tables[i])
        /\ tables[i].guest_q # <<>>
        /\ ~Live(AnonUid)
        /\ ENABLED GameEnded(AnonUid)
        /\ ENABLED JoinTable(AnonUid, tables[i].tid, "1,1")
        /\ ENABLED RejectInvite(AnonUid, tables[i].tid, None)

(***************************************************************************)
(* C13: a send-function-call whose payload does not decode, or decodes to  *)
(* a value without function name, leaves every session, table and queue    *)
(* as it was, whether the caller sits at an Open table, at a Playing table *)
(* of two humans or at a substitute-occupied one.                          *)
(***************************************************************************)
C13_NamelessCallChangesNothing ==
    \A uid \in Callers, obj \in ObjPool :
        (obj.shape = "undecodable" \/ obj.fn = "")
        => game_message(Registries, uid, obj) = Registries

\* the live host of a substitute-occupied table with undrained events is
\* about to send a payload that decodes to a dict without functionName
C13_Witness ==
    \E i \in 1..Len(tables) :
        /\ tables[i].robot_mode
        /\ SitsAt(tables[i].host, tables[i])
        /\ tables[i].host_q # <<>>
        /\ ENABLED GameMessage(tables[i].host,
                      [shape |-> "dict", fn |-> "", params |-> "[]"])

(***************************************************************************)
(* C14 as claimed: once a table has been destroyed its id is never used    *)
(* again by a later table.                                                 *)
(***************************************************************************)
C14_NoTableIdReused ==
    \A i \in 1..Len(tables) : tables[i].tid \notin obs.gone

(***************************************************************************)
(* C14 amended: at any time no two live tables share an id, a table's id   *)
(* being the session id of its host; the id of a destroyed table is used   *)
(* again only by a table whose host has that session id.                   *)
(***************************************************************************)
C14_LiveTableIdsDistinct ==
    /\ \A i, j \in 1..Len(tables) :
          tables[i].tid = tables[j].tid => i = j
    /\ \A i \in 1..Len(tables) : tables[i].tid = tables[i].host

\* two tables are alive, one of them under the id of a table deleted before
C14_Witness ==
    /\ Len(tables) = 2
    /\ \E i \in 1..2 : tables[i].tid \in obs.gone

(***************************************************************************)
(* C15: joinRoom always hands out an id that names no live session, so     *)
(* creating a session never replaces or alters an existing session.        *)
(***************************************************************************)
C15_JoinRoomIdFresh ==
    [][ \A new_uid \in UidPool, n \in NamePool, ip \in IpPool :
          JoinRoom(AnonUid, n, ip, new_uid)
          => /\ new_uid \notin DOMAIN sessions
             /\ \A u \in DOMAIN sessions : sessions'[u] = sessions[u] ]_vars

(***************************************************************************)
(* C16: every function name outside the synchronized set is asynchronous:  *)
(* in a Playing table of two humans each call of such a function by one    *)
(* occupant is enqueued exactly once for the other occupant, tagged with   *)
(* the sender's index, and never for the sender.                           *)
(***************************************************************************)
C16_RemainderIsAsync ==
    \A i \in 1..Len(tables), fn \in FnPool \ SYNC_FNS :
        LET t == tables[i]
        IN  TwoParty(t)
            => \A u \in {t.host, t.guest} :
                  LET o == other_uid(t, u)
                      own == IndexOf(t, u)
                  IN  /\ Len(TaggedOf(obs.got[o] \o QueueOf(t, o), fn, own))
                            = CallsOf(u, fn)
                      /\ TaggedOf(obs.got[u] \o QueueOf(t, u), fn, own) = <<>>

(***************************************************************************)
(* Vocabulary of the substitute properties (SpecRobot)                     *)
(***************************************************************************)
RECURSIVE RobotAnswers(_, _)
\* what the calls of uid, in order, put into the host queue of its
\* substitute table: <<fn, index, synchronization tag>> per envelope
RobotAnswers(calls, uid) ==
    IF calls = <<>> THEN <<>>
    ELSE LET fn == calls[1].fn
         IN  (IF calls[1].uid = uid /\ fn \in SYNC_FNS
              THEN << <<fn, 0, fn>>, <<fn, 1, fn>> >>
              ELSE <<>>) \o RobotAnswers(Tail(calls), uid)

RobotTableOf(uid) == GetTable(tables, sessions[uid].table_tid)

Tags(q) == [k \in 1..Len(q) |-> <<q[k].fn, q[k].idx, q[k].sync>>]

(***************************************************************************)
(* C17 as claimed: in a substitute-occupied table, once the host has sent  *)
(* startShoot an opponentShooterShooted envelope without synchronization   *)
(* tag is queued for the host or has been returned by one of its polls.    *)
(***************************************************************************)
C17_SubstituteShootsBack ==
    \A uid \in RobotUids :
        (AtRobotTable(uid) /\ CallsOf(uid, "startShoot") >= 1)
        => \E k \in 1..Len(obs.got[uid] \o RobotTableOf(uid).host_q) :
              LET e == (obs.got[uid] \o RobotTableOf(uid).host_q)[k]
              IN  /\ IsEnvelope(e)
                  /\ e.fn = "opponentShooterShooted"
                  /\ e.sync = None

(***************************************************************************)
(* C17 amended: in a substitute-occupied table the server queues no        *)
(* substitute action.  The host's startShoot is answered like every        *)
(* synchronized call, with two startShoot envelopes (index 0, then index   *)
(* 1, tag startShoot) in the host queue; an asynchronous call is answered  *)
(* with nothing; the envelopes the host's polls return and those still     *)
(* queued are exactly these answers, in call order, and none of them is an *)
(* opponentShooterShooted envelope.                                        *)
(***************************************************************************)
C17_SubstituteOnlyEchoesSync ==
    \A uid \in RobotUids :
        AtRobotTable(uid)
        => LET seen == obs.got[uid]
                          \o Envelopes(RobotTableOf(uid).host_q)
           IN  /\ Tags(seen) = RobotAnswers(obs.sent, uid)
               /\ \A k \in 1..Len(seen) :
                     seen[k].fn # "opponentShooterShooted"
               /\ RobotTableOf(uid).guest_q = <<>>

\* the host has sent startShoot and a poll has returned both answers
C17_Witness ==
    \E uid \in RobotUids :
        /\ AtRobotTable(uid)
        /\ CallsOf(uid, "startShoot") = 1
        /\ Len(EnvelopesOf(obs.got[uid], "startShoot")) = 2
        /\ RobotTableOf(uid).host_q = <<>>

(***************************************************************************)
(* SpecNames: checkUser and joinRoom calls from two clients and two        *)
(* network origins, with three names to tell the sources apart             *)
(***************************************************************************)
NameCallers == {AnonUid, "100000"}
NameUids == {"100000", "100001"}
Names == {"Ann", "Bob", "Cy"}
NameIps == {"ip1", "ip2"}

NextNames ==
    \/ \E uid \in NameCallers, name_param \in Names \cup {None} :
          CheckUser(uid, name_param)
    \/ \E uid \in NameCallers, name_param \in Names \cup {None},
          ip \in NameIps, new_uid \in NameUids :
          JoinRoom(uid, name_param, ip, new_uid)

SpecNames == Init /\ [][NextNames]_vars

\* C20: joinRoom takes the display name from the call's name parameter; else
\* from the pending name under the caller's own id; else from the wildcard
\* pending name; else from the name seen for the caller's network origin;
\* else the default; a source is used only when all before it are absent.
C20_NamePriority ==
    [][\A uid \in NameCallers, name_param \in Names \cup {None},
          ip \in NameIps, new_uid \in NameUids :
          JoinRoom(uid, name_param, ip, new_uid)
              => LET name == sessions'[new_uid].name
                     own == uid \in DOMAIN pending_names
                     last == LastKey \in DOMAIN pending_names
                     origin == ip \in DOMAIN ip_names
                 IN  /\ name_param # None => name = name_param
                     /\ (name_param = None /\ own)
                            => name = pending_names[uid]
                     /\ (name_param = None /\ ~own /\ last)
                            => name = pending_names[LastKey]
                     /\ (name_param = None /\ ~own /\ ~last /\ origin)
                            => name = ip_names[ip]
                     /\ (name_param = None /\ ~own /\ ~last /\ ~origin)
                            => name = DefaultName]_vars

\* a session was named from the caller's own pending name while the
\* wildcard and the origin held other names
C20_Witness ==
    /\ "100001" \in DOMAIN sessions
    /\ sessions["100001"].name = "Ann"
    /\ AnonUid \notin DOMAIN pending_names
    /\ LastKey \in DOMAIN pending_names
    /\ pending_names[LastKey] = "Bob"
    /\ "100000" \in DOMAIN pending_names
    /\ ip_names = [x \in {"ip1"} |-> "Ann"]

(***************************************************************************)
(* The codec claims, over SpecCodec                                        *)
(***************************************************************************)
RECURSIVE ContainsNaN(_)
ContainsNaN(v) ==
    \/ v.t = "float" /\ IsNaN(v.hi, v.lo)
    \/ \E k \in 1..Len(v.items) : ContainsNaN(v.items[k])

\* C18: round-trip law: for every value built from null, booleans, 32-bit
\* integers, doubles other than NaN, strings, lists and ordered maps, nested
\* to depth 3 or more and with strings containing &, ", < and >, decoding the
\* encoding gives back the value, list order and key order included.
C18_RoundTrip ==
    (codec.phase = "done" /\ ~ContainsNaN(codec.val))
        => codec.back = codec.val

\* C19: variable-length double encoding: the encoder writes lo as unpadded
\* lowercase hex, at most 8 digits, when hi is 0, and exactly 16 digits, hi
\* then lo each padded to 8, when hi is not 0; the decoder recovers (hi, lo).
C19_VariableLengthDouble ==
    (codec.val.t = "float" /\ codec.phase \in {"wire", "done"})
        => LET h == codec.wire.attr
               hi == codec.val.hi
               lo == codec.val.lo
           IN  /\ \A k \in 1..Len(h) : IsDigit(h[k], HexDigits)
               /\ hi = ZeroWord
                    => /\ Len(h) \in 1..8
                       /\ Len(h) > 1 => h[1] # "0"
                       /\ HexWord(h) = lo
               /\ hi # ZeroWord
                    => /\ Len(h) = 16
                       /\ HexWord(SubSeq(h, 1, 8)) = hi
                       /\ HexWord(SubSeq(h, 9, 16)) = lo
               /\ codec.phase = "done"
                    => /\ codec.back.t = "float"
                       /\ codec.back.hi = hi
                       /\ codec.back.lo = lo

\* a double with a non-zero high word and a low word with leading zeros has
\* been written and read back
C19_Witness ==
    /\ codec.phase = "done"
    /\ codec.val.t = "float"
    /\ codec.val.hi # ZeroWord
    /\ codec.val.lo = <<0, 0, 0, 0, 0, 0, 1, 0>>
    /\ Len(codec.wire.attr) = 16
    /\ codec.back = codec.val

(***************************************************************************)
(* The claims about concurrent requests, over SpecThreads                  *)
(***************************************************************************)
\* what tells two fragments apart: kind, function, index, tag, table, player
Sig(q) ==
    [k \in 1..Len(q) |->
        <<q[k].kind, q[k].fn, q[k].idx, q[k].sync, q[k].tid, q[k].uid>>]

RECURSIVE Relayed(_, _, _)
\* the envelopes the calls, in order, put into the queue of occupant u of t
Relayed(calls, t, u) ==
    IF calls = <<>> THEN <<>>
    ELSE LET c == calls[1]
             idx == IndexOf(t, c.uid)
         IN  (IF c.fn \in SYNC_FNS
              THEN << push_node(c.fn, "[]", c.fn, idx) >>
              ELSE IF c.fn \in ASYNC_FNS /\ c.uid # u
              THEN << push_node(c.fn, "[]", None, idx) >>
              ELSE <<>>) \o Relayed(Tail(calls), t, u)

\* every fragment queued for occupant u of t since t was opened, in order
Queued(t, u) ==
    IF u = t.host
    THEN << OpenTableResult(t.tid), player_joined_xml(u, t.host_name, t.tid) >>
            \o (IF t.guest = None THEN <<>>
                ELSE host_events(t.tid, t.guest, t.guest_name, "1,1")
                        \o Relayed(obs.sent, t, u))
    ELSE guest_events(t.tid, t.host, t.host_name, u, t.guest_name, "1,1")
            \o Relayed(obs.sent, t, u)

\* no poll of u stands between reading the queue and returning
NotDraining(u) ==
    \A x \in Threads : run.th[x].pc = "idle" \/ run.th[x].uid # u

\* C21: each queued fragment is consumed exactly once: what the polls of an
\* occupant have returned, followed by what its queue still holds, is what
\* was queued for it, each fragment once and in the order queued, also when
\* polls of the same session overlap or a relay comes between them.
C21_ConsumedExactlyOnce ==
    \A i \in 1..Len(tables) :
        LET t == tables[i]
        IN  \A u \in {t.host, t.guest} \ {None} :
               NotDraining(u)
               => Sig(obs.got[u] \o QueueOf(t, u)) = Sig(Queued(t, u))

\* both threads have polled for the guest of a two-party table and their
\* polls have returned, between them, the envelopes of the two calls made
C21_Witness ==
    \E i \in 1..Len(tables) :
        LET t == tables[i]
        IN  /\ TwoParty(t)
            /\ \A x \in Threads : run.th[x].uid = t.guest
            /\ AllIdle
            /\ Len(obs.sent) = 2
            /\ Len(Envelopes(obs.got[t.guest])) = 2
            /\ t.guest_q = <<>>

(***************************************************************************)
(* C22: a table's guest is set only while the guest slot is empty: a       *)
(* session becomes guest only of an Open table with no guest, the guest of *)
(* a Playing table is not replaced by another session, and no request      *)
(* leaves a table whose guest is a session that is not live or whose       *)
(* table_tid does not name the table.                                      *)
(***************************************************************************)
C22_GuestSetOnce ==
    [][ \A i \in 1..Len(tables') :
          LET t == tables'[i]
          IN  t.guest \notin {None, ROBOT_UID}
              => /\ t.guest \in DOMAIN sessions'
                 /\ sessions'[t.guest].table_tid = t.tid
                 /\ (HasTable(tables, t.tid)
                        /\ GetTable(tables, t.tid).host = t.host
                        /\ GetTable(tables, t.tid).guest # t.guest)
                    => /\ GetTable(tables, t.tid).guest = None
                       /\ GetTable(tables, t.tid).state = "open" ]_vars

(***************************************************************************)
(* The substitute claims                                                   *)
(***************************************************************************)
\* the four events that seat the substitute at table tid
SubstituteEvents(tid, seeds) ==
    << RobotJoinTableResult,
       player_joined_xml(ROBOT_UID, ROBOT_NAME, tid),
       StartPlayingResult,
       PlayingStarted(tid, seeds) >>

\* C23: seating the substitute takes effect only on a live table that is
\* Open and not substitute-occupied: the table becomes Playing with the
\* substitute as guest, the host queue gains, in order, the substitute-join
\* confirmation, the substitute's joined notice, the start confirmation and
\* the match-started notice, the guest queue gains nothing; on a missing,
\* Playing or substitute-occupied table nothing changes.
C23_SubstituteOnlyOnOpen ==
    \A tid \in LobbyUids \cup {AnonUid}, seeds \in SeedPool :
        LET T == robot_join_now(tables, tid, seeds)
        IN  IF /\ HasTable(tables, tid)
               /\ GetTable(tables, tid).state = "open"
               /\ ~GetTable(tables, tid).robot_mode
            THEN LET t == GetTable(tables, tid)
                 IN  /\ Len(T) = Len(tables)
                     /\ \A i \in 1..Len(T) :
                           tables[i].tid # tid => T[i] = tables[i]
                     /\ GetTable(T, tid) =
                           [t EXCEPT !.state = "playing", !.robot_mode = TRUE,
                                     !.guest = ROBOT_UID,
                                     !.guest_name = ROBOT_NAME,
                                     !.host_q = t.host_q
                                         \o SubstituteEvents(tid, seeds)]
                     /\ GetTable(T, tid).guest_q = t.guest_q
            ELSE T = tables

\* the substitute has been seated: the four events are the last the host
\* queue holds
C23_Witness ==
    \E i \in 1..Len(tables) :
        LET t == tables[i]
        IN  /\ t.robot_mode /\ t.state = "playing" /\ t.guest = ROBOT_UID
            /\ Len(t.host_q) >= 4
            /\ SubSeq(t.host_q, Len(t.host_q) - 3, Len(t.host_q))
                  = SubstituteEvents(t.tid, "1,1")
            /\ t.guest_q = <<>>

RecognizedTags == {"null", "b", "i", "n", "s", "a", "o"}

RECURSIVE Offending(_)
\* el holds, at some depth, a tag that is not recognized or a map child that
\* is no k element
Offending(el) ==
    \/ el.tag \notin RecognizedTags
    \/ el.tag = "a" /\ \E k \in 1..Len(el.kids) : Offending(el.kids[k])
    \/ el.tag = "o"
          /\ \E k \in 1..Len(el.kids) :
                \/ el.kids[k].tag # "k"
                \/ el.kids[k].kids # <<>> /\ Offending(el.kids[k].kids[1])

\* C25: decoding a payload with an unrecognized tag at any depth, or with a
\* map child that is no k element, fails as a whole and yields no value.
C25_UnknownTagFailsWhole ==
    (codec.phase = "decoded" /\ Offending(codec.wire))
        => codec.back = NullVal

(***************************************************************************)
(* SpecBridge: clients register pending names and create sessions without  *)
(* a name parameter, each session from a network origin not seen before;   *)
(* obs.sent records the registrations and the names the sessions got.      *)
(***************************************************************************)
MaxBridgeCalls == 4

BridgeIps == {"ip1", "ip2", "ip3"}

\* checkUser with a name
Register(uid, name) ==
    /\ Len(obs.sent) < MaxBridgeCalls
    /\ pending_names' = check_user(pending_names, uid, name)
    /\ obs' = [obs EXCEPT !.sent =
                  Append(@, [uid |-> uid, fn |-> "checkUser", name |-> name])]
    /\ UNCHANGED <<sessions, tables, ip_names, codec, run>>

\* joinRoom without a name, from an origin no name is remembered for
Create(uid, ip, new_uid) ==
    LET r == join_room(sessions, pending_names, ip_names,
                       uid, None, ip, new_uid)
    IN  /\ Len(obs.sent) < MaxBridgeCalls
        /\ ip \notin DOMAIN ip_names
        /\ new_uid \notin DOMAIN sessions
        /\ sessions' = r.sessions
        /\ pending_names' = r.pending_names
        /\ ip_names' = r.ip_names
        /\ obs' = [obs EXCEPT !.sent =
                      Append(@, [uid |-> uid, fn |-> "joinRoom",
                                 name |-> r.sessions[new_uid].name])]
        /\ UNCHANGED <<tables, codec, run>>

NextBridge ==
    \/ \E uid \in NameCallers, name \in Names : Register(uid, name)
    \/ \E uid \in NameCallers, ip \in BridgeIps, new_uid \in UidPool :
          Create(uid, ip, new_uid)

SpecBridge == Init /\ [][NextBridge]_vars

(***************************************************************************)
(* The pending-name claim, over SpecBridge                                 *)
(***************************************************************************)
\* how many calls fn the log holds for the name
LoggedFor(fn, name) ==
    Len(SelectSeq(obs.sent, LAMBDA c : c.fn = fn /\ c.name = name))

\* C26: a pending name is consumed on its first successful lookup: the name
\* stored by one checkUser call names at most one created session, so no
\* name has named more sessions than calls have registered it.
C26_PendingNameNamesOneSession ==
    \A name \in Names :
        LoggedFor("joinRoom", name) <= LoggedFor("checkUser", name)

(***************************************************************************)
(* C27: at the moment a human guest is connected to a table the host queue *)
(* holds no function-call envelope: none enqueued while the table was      *)
(* Open, none left undrained from the match with a previous guest.         *)
(***************************************************************************)
C27_NoEnvelopeAtConnect ==
    [][ \A i \in 1..Len(tables') :
          LET t == tables'[i]
          IN  ( /\ TwoHuman(t)
                /\ HasTable(tables, t.tid)
                /\ GetTable(tables, t.tid).host = t.host
                /\ GetTable(tables, t.tid).guest = None )
              => Envelopes(t.host_q) = <<>> ]_vars

(***************************************************************************)
(* SpecMatch: a host waits at its Open table and polls, while other        *)
(* clients enter and leave the room without touching the table (one table  *)
(* is opened in a run); obs.sent records every poll the host made while    *)
(* its table was Open.                                                     *)
(***************************************************************************)
MatchUids == {"100000", "100001"}

\* uid is the live host of an Open table without substitute
Waiting(uid) ==
    /\ uid \in DOMAIN sessions
    /\ HasTable(tables, sessions[uid].table_tid)
    /\ LET t == GetTable(tables, sessions[uid].table_tid)
       IN  t.host = uid /\ t.state = "open" /\ ~t.robot_mode

\* getMessages by the host of a table
PollCounted(uid, seeds) ==
    LET r == get_messages(Registries, uid, seeds)
    IN  /\ uid \in DOMAIN sessions
        /\ sessions[uid].table_tid # None
        /\ BoundedSizes(r.st)
        /\ sessions' = r.st.sessions
        /\ tables' = r.st.tables
        /\ obs' = IF Waiting(uid)
                  THEN [obs EXCEPT !.sent =
                           Append(@, [uid |-> uid, fn |-> "getMessages"])]
                  ELSE obs
        /\ UNCHANGED <<run, codec, pending_names, ip_names>>

NextMatch ==
    \/ \E new_uid \in MatchUids, n \in NamePool, ip \in IpPool :
          new_uid \notin DOMAIN sessions /\ JoinRoom(AnonUid, n, ip, new_uid)
    \/ \E uid \in MatchUids :
          /\ uid \in DOMAIN sessions /\ tables = <<>>
          /\ OpenTable(uid)
    \/ \E uid \in MatchUids :
          /\ uid \in DOMAIN sessions /\ sessions[uid].table_tid = None
          /\ Leave(uid)
    \/ \E uid \in MatchUids, seeds \in SeedPool : PollCounted(uid, seeds)

SpecMatch == Init /\ [][NextMatch]_vars

\* the polls uid has made while waiting at its Open table
WaitingPolls(uid) == CallsOf(uid, "getMessages")

\* C28: bounded matching: a host that only polls at its Open, substitute-
\* free table sees the table Playing no later than its 80th such poll, and
\* no later than the 12th when at that poll no other session is without a
\* table; an Open table never has a wait_polls of 80 or more.
C28_BoundedMatching ==
    [][ /\ \A i \in 1..Len(tables') :
              tables'[i].state = "open"
              => /\ tables'[i].wait_polls < 80
                 /\ Len(SelectSeq(obs'.sent,
                          LAMBDA c : c.uid = tables'[i].host)) < 80
        /\ \A uid \in MatchUids :
              ( /\ Waiting(uid)
                /\ obs'.sent = Append(obs.sent,
                                      [uid |-> uid, fn |-> "getMessages"])
                /\ WaitingPolls(uid) + 1 >= 12
                /\ \A v \in DOMAIN sessions \ {uid} :
                      sessions[v].table_tid # None )
              => GetTable(tables', sessions[uid].table_tid).state = "playing"
      ]_vars

\* the host polled 80 times while another client stood in the room, and the
\* 80th poll seated the substitute
C28_Witness ==
    \E i \in 1..Len(tables) :
        /\ tables[i].state = "playing"
        /\ tables[i].robot_mode
        /\ tables[i].wait_polls = 80
        /\ CallsOf(tables[i].host, "getMessages") = 80

(***************************************************************************)
(* SpecSeeds: clients enter, open and join tables, invite, poll and leave, *)
(* and every connect draws its seeds from more than one possible value.    *)
(***************************************************************************)
SeedUids == {"100000", "100001"}

\* str(random.randint(1, 999999)), two of the values it can return
SeedDraws == {"1", "2"}

\* random_seeds(): two draws joined by a comma
random_seeds(a, b) == a \o "," \o b

Seeds == {random_seeds(a, b) : a \in SeedDraws, b \in SeedDraws}

NextSeeds ==
    \/ \E new_uid \in SeedUids, n \in NamePool, ip \in IpPool :
          new_uid \notin DOMAIN sessions /\ JoinRoom(AnonUid, n, ip, new_uid)
    \/ \E uid \in SeedUids : OpenTable(uid)
    \/ \E uid \in SeedUids, tid \in SeedUids \cup {None}, seeds \in Seeds :
          JoinTable(uid, tid, seeds)
    \/ \E uid \in SeedUids, target \in SeedUids, seeds \in Seeds :
          InviteToTable_(uid, target, None, seeds)
    \/ \E uid \in SeedUids, seeds \in Seeds : GetMessages(uid, seeds)
    \/ \E uid \in SeedUids : Leave(uid)

SpecSeeds == Init /\ [][NextSeeds]_vars

\* C29: when two humans are connected, the match-started notice placed in
\* the host queue and the one placed in the guest queue carry the same table
\* id and the same random seeds.
C29_SameSeedsBothSides ==
    [][ \A i \in 1..Len(tables') :
            LET t == tables'[i]
            IN  ( /\ TwoHuman(t)
                  /\ HasTable(tables, t.tid)
                  /\ GetTable(tables, t.tid).guest = None )
                => /\ t.host_q # <<>> /\ t.guest_q # <<>>
                   /\ Last(t.host_q).kind = "PLAYINGSTARTED"
                   /\ Last(t.guest_q).kind = "PLAYINGSTARTED"
                   /\ Last(t.host_q).tid = t.tid
                   /\ Last(t.guest_q).tid = t.tid
                   /\ Last(t.host_q).seeds \in Seeds
                   /\ Last(t.guest_q).seeds = Last(t.host_q).seeds
      ]_vars

\* two humans are connected and neither has polled yet: both queues end
\* with the match-started notice, whose seeds come from two unequal draws
C29_Witness ==
    \E i \in 1..Len(tables) :
        LET t == tables[i]
        IN  /\ TwoHuman(t)
            /\ Len(t.host_q) = 3
            /\ Len(t.guest_q) = 5
            /\ Last(t.host_q) = PlayingStarted(t.tid, random_seeds("2", "1"))
            /\ Last(t.guest_q) = Last(t.host_q)

(***************************************************************************)
(* SpecReserved: the lobby with the upper end of random.randint(100000,    *)
(* 999999) among the ids joinRoom can draw.                                *)
(***************************************************************************)
ReservedUids == {"100000", "999999"}

NextReserved ==
    \/ \E new_uid \in ReservedUids, n \in NamePool, ip \in IpPool :
          JoinRoom(AnonUid, n, ip, new_uid)
    \/ \E uid \in ReservedUids : OpenTable(uid)
    \/ \E uid \in ReservedUids, seeds \in SeedPool : JoinTable(uid, None, seeds)
    \/ \E uid \in ReservedUids, seeds \in SeedPool :
          RobotJoinTable(uid, None, seeds)
    \/ \E uid \in ReservedUids, seeds \in SeedPool : GetMessages(uid, seeds)
    \/ \E uid \in ReservedUids, obj \in LobbyObjs : GameMessage(uid, obj)
    \/ \E uid \in ReservedUids : Leave(uid)

SpecReserved == Init /\ [][NextReserved]_vars

\* C30: the reserved substitute id is never assigned to a session: in every
\* reachable state a table's guest equals the substitute id if and only if
\* the table is substitute-occupied, and a conversion of a Playing table
\* detaches its guest.
C30_SubstituteIdReserved ==
    /\ ROBOT_UID \notin DOMAIN sessions
    /\ \A i \in 1..Len(tables) :
          /\ (tables[i].guest = ROBOT_UID) <=> tables[i].robot_mode
          /\ \A seeds \in SeedPool :
                ( /\ tables[i].state = "playing"
                  /\ ~tables[i].robot_mode
                  /\ tables[i].host \in DOMAIN sessions
                  /\ sessions[tables[i].host].table_tid = tables[i].tid
                  /\ tables[i].guest \in DOMAIN sessions )
                => robot_join_table(Registries, tables[i].host, None, seeds)
                      .st.sessions[tables[i].guest].table_tid = None

====
